---- MODULE Spec2Model ----
(***************************************************************************)
(* A model of cbuild.h (src/build.c): the target / command graph, the      *)
(* freshness decisions on file mtimes, and the depth-first scheduler that  *)
(* cbuild_run drives.                                                      *)
(*                                                                         *)
(* A target is its index in the registry g_targets, a command its index   *)
(* in g_commands.  A path is a tuple of its components; the filesystem is  *)
(* a map from paths to mtimes in seconds, 0 standing for "no such file".   *)
(* One call of cbuild_run, or of cbuild_run_command, is one action; what   *)
(* the call did, in order, is kept in the run record's log.                *)
(*                                                                         *)
(* Spec and SpecFresh run the default build, SpecArgs runs cbuild_run with *)
(* each kind of argument, and SpecSub takes the registration calls of a    *)
(* build script with a subproject one by one.  A text (the manifest) is a  *)
(* sequence of atoms: blanks, slashes, newlines and runs of other          *)
(* characters.                                                             *)
(***************************************************************************)
EXTENDS Integers, Sequences, FiniteSets, TLC

VARIABLES
    g_targets,   \* the registry: a sequence of target records
    g_commands,  \* the commands: a sequence of command records
    g_subcommands, \* the registered subcommands: a sequence of records
    g_subprojects, \* the subprojects: a sequence of records
    g_output_dir,  \* the output directory setting (NULL until set)
    g_global_cflags,  \* the global compiler flags (NULL until added to)
    g_global_defines, \* the global macro definitions: a sequence of strings
    g_generate_compile_commands, \* compile_commands.json is asked for
    g_cc_entries,  \* the compile-commands index: a sequence of records
    pc,          \* "alive", or "crashed" once the build script's process died
    calls,       \* the calls of cbuild_subproject_get_target made, as records
    fs,          \* the filesystem: path -> mtime (0: the file is missing)
    clock,       \* the current time in seconds
    latency,     \* seconds a compile / archive / link subprocess takes (0: under a second)
    runs         \* one record per finished cbuild_run call, oldest first

vars == <<g_targets, g_commands, g_subcommands, g_subprojects, g_output_dir,
          g_global_cflags, g_global_defines, g_generate_compile_commands, g_cc_entries,
          pc, calls, fs, clock, latency, runs>>

\* What the registration calls set up, apart from the targets and commands.
settings == <<g_subcommands, g_subprojects, g_output_dir, pc, calls,
              g_global_cflags, g_global_defines, g_generate_compile_commands>>

----------------------------------------------------------------------------
(* Bounds of the model *)

\* The build script makes at most MaxEdges calls that add an edge to the graph
\* (link_library, add_command, add_post_command, command_add_dependency).
MaxEdges == 4
\* The clock is moved by the environment up to MaxTime; a source can be
\* stamped up to MaxTime + 1.
MaxTime == 3
\* The graphs of the runs with arguments have at most MaxArgEdges edges.
MaxArgEdges == 3
\* A build script with a subproject creates its own targets while the
\* registry holds fewer than MaxTargets, and asks at most MaxCalls times for
\* a target of the subproject.
MaxTargets == 2
MaxCalls == 2
\* A build script that is cleaned has at most MaxSubprojects subprojects.
MaxSubprojects == 2
\* A build script that sets compiler flags makes at most MaxFlagCalls
\* cflags calls and calls cbuild_run at most MaxRuns times.
MaxFlagCalls == 2
MaxRuns == 2
\* A build executable that rebuilds itself is started at most MaxImages
\* times (the first start and the execv calls that follow).
MaxImages == 2
\* A build script that passes null pointers makes at most MaxApiCalls
\* mutator calls.
MaxApiCalls == 2

\* The targets the modelled build script registers, in registration order.
TargetDefs ==
    << [name |-> "math", type |-> "TARGET_STATIC_LIB", sources |-> << <<"math.c">> >>],
       [name |-> "main", type |-> "TARGET_EXECUTABLE", sources |-> << <<"main.c">> >>] >>

\* The commands the modelled build script creates with cbuild_command.
CommandDefs == << [name |-> "gen"], [name |-> "fmt"] >>

\* The subcommands the modelled build script registers: "test" builds main
\* (target 2) and runs a shell line, "hello" builds math (target 1) and
\* calls a callback, "clean" carries the name of a built-in verb.
SubcommandDefs ==
    << [name |-> "test", target |-> 2, command_line |-> "./build/main --selftest",
        callback |-> FALSE],
       [name |-> "hello", target |-> 1, command_line |-> "NULL", callback |-> TRUE],
       [name |-> "clean", target |-> 1, command_line |-> "rm -rf dist", callback |-> FALSE] >>

Targets == 1..Len(TargetDefs)
Commands == 1..Len(CommandDefs)

\* No step fails.
NoFail == <<"NONE">>

----------------------------------------------------------------------------
(* Paths *)

\* A null pointer, and the empty path that stands for it.
NULL == "NULL"
NullPath == <<>>

\* The base name of a source path (its last component) stripped of its final
\* extension.
Stem(src) ==
    LET base == src[Len(src)]
    IN CASE base = "math.c" -> "math"
         [] base = "main.c" -> "main"
         [] base = "plug.c" -> "plug"
         [] base = "base.c" -> "base"
         [] base = "left.c" -> "left"
         [] base = "right.c" -> "right"
         [] base = "top.c" -> "top"
         [] OTHER -> base

\* snprintf(objname, "%s/%.*s.o", t->obj_dir, len, base)
ObjName(t, src) == t.obj_dir \o <<Stem(src) \o ".o">>

\* The C string of a path: its components with a slash between them.
PathString(path) ==
    LET f[i \in 0..Len(path)] ==
            IF i = 0 THEN ""
            ELSE IF i = 1 THEN path[1]
            ELSE f[i - 1] \o "/" \o path[i]
    IN f[Len(path)]

\* "\"%s\"": a string between double quotes.
Quoted(str) == "\"" \o str \o "\""

\* snprintf(depname, "%s/%.*s.o.d", t->obj_dir, len, base)
DepName(t, src) == t.obj_dir \o <<Stem(src) \o ".o.d">>

SourceFiles == UNION {{TargetDefs[i].sources[k] : k \in 1..Len(TargetDefs[i].sources)} : i \in Targets}

----------------------------------------------------------------------------
(* Registration API *)

\* What "%s" prints for a string argument when the call returns: glibc
\* prints "(null)" for a null pointer.
FormatS(s) == IF s = NULL THEN "(null)" ELSE s

\* The body of cbuild_create_target: output file and object directory are
\* derived from the output directory, the kind and the name (the Unix forms).
create_target_in(output_dir, name, type) ==
    [ type |-> type,
      name |-> name,
      sources |-> <<>>,
      dependencies |-> <<>>,
      commands |-> <<>>,
      post_commands |-> <<>>,
      output_file |->
          CASE type = "TARGET_EXECUTABLE" -> <<FormatS(output_dir), name>>
            [] type = "TARGET_STATIC_LIB" -> <<FormatS(output_dir), "lib" \o name \o ".a">>
            [] type = "TARGET_SHARED_LIB" -> <<FormatS(output_dir), "lib" \o name \o ".so">>,
      obj_dir |-> <<FormatS(output_dir), "obj_" \o name>>,
      cflags |-> NULL,
      include_dirs |-> <<>>,
      lib_dirs |-> <<>>,
      link_libs |-> <<>>,
      defines |-> <<>> ]

\* cbuild_create_target(name, type) reads the global g_output_dir.
cbuild_create_target(name, type) == create_target_in(g_output_dir, name, type)

\* cbuild_add_source with a literal path.
cbuild_add_source(t, src) == [t EXCEPT !.sources = Append(@, src)]

\* cbuild_target_link_library(dependant, dependency)
cbuild_target_link_library(t, dep) == [t EXCEPT !.dependencies = Append(@, dep)]

\* cbuild_target_add_command(target, cmd)
cbuild_target_add_command(t, c) == [t EXCEPT !.commands = Append(@, c)]

\* cbuild_target_add_cflags(target, cflags): the first value is copied, a
\* later one is appended after a blank; a null cflags is ignored.
cbuild_target_add_cflags(t, cflags) ==
    IF cflags = NULL THEN t
    ELSE IF t.cflags = NULL THEN [t EXCEPT !.cflags = cflags]
    ELSE [t EXCEPT !.cflags = @ \o " " \o cflags]

\* cbuild_add_global_cflags(flags): append_format(&g_global_cflags, "%s ", flags)
cbuild_add_global_cflags(global_cflags, flags) ==
    (IF global_cflags = NULL THEN "" ELSE global_cflags) \o flags \o " "

\* cbuild_add_include_dir with a literal path.
cbuild_add_include_dir(t, include_dir) == [t EXCEPT !.include_dirs = Append(@, include_dir)]

\* cbuild_add_library_dir with a literal path.
cbuild_add_library_dir(t, lib_dir) == [t EXCEPT !.lib_dirs = Append(@, lib_dir)]

\* cbuild_add_link_library with a literal name.
cbuild_add_link_library(t, lib) == [t EXCEPT !.link_libs = Append(@, lib)]

\* cbuild_add_define(t, macro)
cbuild_add_define(t, macro) == [t EXCEPT !.defines = Append(@, macro)]

\* cbuild_enable_compile_commands(enabled)
cbuild_enable_compile_commands(enabled) == enabled

\* cbuild_target_add_post_command(target, cmd)
cbuild_target_add_post_command(t, c) == [t EXCEPT !.post_commands = Append(@, c)]

\* cbuild_command(name, command_line): calloc leaves executed and result 0.
cbuild_command(name) ==
    [name |-> name, dependencies |-> <<>>, executed |-> FALSE, result |-> 0]

\* cbuild_register_subcommand(name, target, command_line, callback,
\* user_data): appended to g_subcommands.  A subcommand has a shell line
\* or a callback.
cbuild_register_subcommand(subcommands, d) ==
    Append(subcommands, [name |-> d.name, target |-> d.target,
                         command_line |-> d.command_line, callback |-> d.callback])

\* cbuild_command_add_dependency(cmd, dependency)
cbuild_command_add_dependency(c, dep) == [c EXCEPT !.dependencies = Append(@, dep)]

----------------------------------------------------------------------------
(* The build script: the graph cbuild_run is called on *)

\* Op applied to x and to each element of seq in turn (one API call each).
Calls(Op(_, _), x, seq) ==
    LET f[i \in 0..Len(seq)] == IF i = 0 THEN x ELSE Op(f[i - 1], seq[i])
    IN f[Len(seq)]

\* The calls of the build script that add an edge: each is a tuple
\* <<call, from, to>>.
AllEdges ==
    {<<"link", t, u>> : t \in Targets, u \in Targets}
        \cup {<<"pre", t, c>> : t \in Targets, c \in Commands}
        \cup {<<"post", t, c>> : t \in Targets, c \in Commands}
        \cup {<<"cdep", c, d>> : c \in Commands, d \in Commands}

\* The subsets of S of at most k elements.
RECURSIVE SubsetsUpTo(_, _)
SubsetsUpTo(S, k) ==
    IF k = 0 THEN {{}}
    ELSE LET P == SubsetsUpTo(S, k - 1)
         IN P \cup {p \cup {e} : p \in P, e \in S}

\* The second components u of the edges <<kind, from, u>> of E, ascending:
\* the order in which the script makes these calls.
EdgeSeq(E, kind, from, N) ==
    SelectSeq([i \in 1..N |-> i], LAMBDA u : <<kind, from, u>> \in E)

\* Target i as the script leaves it: created, its sources added, then its
\* link_library, add_command and add_post_command calls.
ScriptTarget(i, E) ==
    LET d == TargetDefs[i]
        t0 == cbuild_create_target(d.name, d.type)
        t1 == Calls(cbuild_add_source, t0, d.sources)
        t2 == Calls(cbuild_target_link_library, t1, EdgeSeq(E, "link", i, Len(TargetDefs)))
        t3 == Calls(cbuild_target_add_command, t2, EdgeSeq(E, "pre", i, Len(CommandDefs)))
    IN Calls(cbuild_target_add_post_command, t3, EdgeSeq(E, "post", i, Len(CommandDefs)))

\* Command c as the script leaves it.
ScriptCommand(c, E) ==
    Calls(cbuild_command_add_dependency, cbuild_command(CommandDefs[c].name),
          EdgeSeq(E, "cdep", c, Len(CommandDefs)))

\* Every path the model's filesystem can hold.
Paths ==
    SourceFiles
        \cup {cbuild_create_target(TargetDefs[i].name, TargetDefs[i].type).output_file : i \in Targets}
        \cup UNION {{ObjName(cbuild_create_target(TargetDefs[i].name, TargetDefs[i].type),
                             TargetDefs[i].sources[k]) : k \in 1..Len(TargetDefs[i].sources)}
                    : i \in Targets}

----------------------------------------------------------------------------
(* Subprocesses *)

\* run_command: the exit status of the shell line of `step`.  The
\* environment decides which step, if any, fails.
run_command(step, fail) == IF step = fail THEN 1 ELSE 0

\* The steps that can fail.
Steps(tg, cm) ==
    {<<"COMMAND", c>> : c \in DOMAIN cm}
        \cup {<<"LINK", t>> : t \in DOMAIN tg}
        \cup UNION {{<<"COMPILE", t, k>> : k \in 1..Len(tg[t].sources)} : t \in DOMAIN tg}

\* The C stack holds this many nested calls of the visitors; an acyclic
\* graph never nests deeper.
StackLimit == Len(TargetDefs) + 2 * Len(CommandDefs) + 1

\* The call ran out of stack: the process is gone.
Crash(st) == [st EXCEPT !.crashed = TRUE]

\* F applied to the value of x: x is evaluated once, as a C statement is.
Then(x, F(_)) == CHOOSE y \in {F(v) : v \in {x}} : TRUE

----------------------------------------------------------------------------
(* Commands *)

\* error_flag = 1: the run's error flag is set (the log keeps the moment).
SetError(st) == [st EXCEPT !.error_flag = TRUE, !.log = Append(@, <<"ERROR">>)]

\* What command c's shell line leaves on disk when it exits with rc: the
\* files st.writes[c], the artifacts of a subproject for its build command
\* (the commands of the build script itself write nothing the build reads).
Produced(st, c, rc) ==
    IF rc # 0 \/ st.writes[c] = {} THEN st
    ELSE [st EXCEPT !.fs = [p \in DOMAIN @ |-> IF p \in st.writes[c] THEN st.clock ELSE @[p]],
                    !.clock = st.clock + st.latency]

RECURSIVE cbuild_run_command(_, _, _, _)
RECURSIVE run_command_dependencies(_, _, _, _, _)

\* Mutation of run_command_dependencies: the loop goes on after a
\* dependency returned non-zero.
run_command_dependencies_ignoring_failure(c, i, st, fail, depth) ==
    IF i > Len(st.cmds[c].dependencies) THEN [st |-> st, rc |-> 0]
    ELSE Then(cbuild_run_command(st.cmds[c].dependencies[i], st, fail, depth + 1),
              LAMBDA r : IF r.st.crashed THEN r
                         ELSE run_command_dependencies(c, i + 1, r.st, fail, depth))

\* The loop of cbuild_run_command over cmd->dependencies, from index i:
\* stops at the first dependency that returns non-zero.
run_command_dependencies(c, i, st, fail, depth) ==
    IF i > Len(st.cmds[c].dependencies) THEN [st |-> st, rc |-> 0]
    ELSE Then(cbuild_run_command(st.cmds[c].dependencies[i], st, fail, depth + 1),
              LAMBDA r : IF r.st.crashed \/ r.rc # 0 THEN r
                         ELSE run_command_dependencies(c, i + 1, r.st, fail, depth))

\* Mutation of run_command_self: the executed flag is not consulted, the
\* shell line runs on every call.
run_command_self_unmemoized(c, d, fail) ==
    IF d.st.crashed \/ d.rc # 0 THEN d
    ELSE LET rc == run_command(<<"COMMAND", c>>, fail)
         IN [st |-> Produced([d.st EXCEPT !.cmds[c].executed = TRUE,
                                          !.cmds[c].result = rc,
                                          !.log = Append(@, <<"COMMAND", c, rc>>)], c, rc),
             rc |-> rc]

\* What cbuild_run_command does once its dependencies have returned d:
\* return the cached result, or execute the shell line and cache its result.
run_command_self(c, d, fail) ==
    IF d.st.crashed \/ d.rc # 0 THEN d
    ELSE IF d.st.cmds[c].executed
         THEN [st |-> d.st, rc |-> d.st.cmds[c].result]
    ELSE LET rc == run_command(<<"COMMAND", c>>, fail)
         IN [st |-> Produced([d.st EXCEPT !.cmds[c].executed = TRUE,
                                          !.cmds[c].result = rc,
                                          !.log = Append(@, <<"COMMAND", c, rc>>)], c, rc),
             rc |-> rc]

\* cbuild_run_command: [st, rc].
cbuild_run_command(c, st, fail, depth) ==
    IF depth > StackLimit THEN [st |-> Crash(st), rc |-> -1]
    ELSE Then(run_command_dependencies(c, 1, st, fail, depth),
              LAMBDA d : run_command_self(c, d, fail))

RECURSIVE dfs_command_func(_, _, _, _)
RECURSIVE dfs_command_dependencies(_, _, _, _, _)

\* The loop of dfs_command_func over cmd->dependencies, from index i.
dfs_command_dependencies(c, i, st, fail, depth) ==
    IF i > Len(st.cmds[c].dependencies) THEN st
    ELSE Then(dfs_command_func(st.cmds[c].dependencies[i], st, fail, depth + 1),
              LAMBDA s : IF s.crashed \/ s.error_flag THEN s
                         ELSE dfs_command_dependencies(c, i + 1, s, fail, depth))

\* dfs_command_func: the command visitor of the scheduler.
dfs_command_func(c, st, fail, depth) ==
    IF depth > StackLimit THEN Crash(st)
    ELSE IF st.error_flag THEN st
    ELSE IF st.cmds[c].executed THEN st
    ELSE Then(dfs_command_dependencies(c, 1, st, fail, depth),
              LAMBDA s :
                  IF s.crashed \/ s.error_flag THEN s
                  ELSE Then(cbuild_run_command(c, s, fail, depth + 1),
                            LAMBDA r : IF r.st.crashed THEN r.st
                                       ELSE IF r.rc # 0 THEN SetError(r.st)
                                       ELSE r.st))

----------------------------------------------------------------------------
(* Freshness and the build step *)

\* Mutation of need_recompile: only a missing object is recompiled.
need_recompile_missing_only(src_file, obj_file, dep_file, files) ==
    files[src_file] = 0 \/ files[obj_file] = 0

\* Mutation of need_recompile: >= where the code has >, so a tie is stale.
need_recompile_ties_stale(src_file, obj_file, dep_file, files) ==
    IF files[src_file] = 0 THEN TRUE
    ELSE IF files[obj_file] = 0 THEN TRUE
    ELSE files[src_file] >= files[obj_file]

\* need_recompile: the object is missing (or the source is) or the source is
\* strictly newer; dep_file is not looked at.
need_recompile(src_file, obj_file, dep_file, files) ==
    IF files[src_file] = 0 THEN TRUE
    ELSE IF files[obj_file] = 0 THEN TRUE
    ELSE files[src_file] > files[obj_file]

\* g_cc once cbuild_init ran and cbuild_set_compiler was not called.
g_cc == "cc"

\* Mutation of compile_command: the per-target flags are appended to the
\* global ones instead of replacing them.
compile_command_appending_cflags(t, obj_file, src_file) ==
    << Quoted(g_cc) \o " ", "-c -o " \o Quoted(PathString(obj_file)) \o " " >>
        \o (IF g_global_cflags # NULL THEN << g_global_cflags \o " " >> ELSE <<>>)
        \o (IF t.cflags # NULL /\ t.cflags # "" THEN << t.cflags \o " " >> ELSE <<>>)
        \o [i \in DOMAIN t.include_dirs |-> "-I" \o Quoted(t.include_dirs[i]) \o " "]
        \o [i \in DOMAIN g_global_defines |-> "-D" \o g_global_defines[i] \o " "]
        \o [i \in DOMAIN t.defines |-> "-D" \o t.defines[i] \o " "]
        \o << Quoted(PathString(src_file)) >>

\* The command line compile_source builds (the Unix form), one piece per
\* append_format call: compiler, output, per-target cflags if non-empty
\* else global cflags, include directories, global then per-target defines,
\* the source.
compile_command(t, obj_file, src_file) ==
    << Quoted(g_cc) \o " ", "-c -o " \o Quoted(PathString(obj_file)) \o " " >>
        \o (IF t.cflags # NULL /\ t.cflags # "" THEN << t.cflags \o " " >>
            ELSE IF g_global_cflags # NULL THEN << g_global_cflags \o " " >>
            ELSE <<>>)
        \o [i \in DOMAIN t.include_dirs |-> "-I" \o Quoted(t.include_dirs[i]) \o " "]
        \o [i \in DOMAIN g_global_defines |-> "-D" \o g_global_defines[i] \o " "]
        \o [i \in DOMAIN t.defines |-> "-D" \o t.defines[i] \o " "]
        \o << Quoted(PathString(src_file)) >>

\* compile_source: exit status of the compile line of source k of target t;
\* the compiler fails on a source that does not exist.
compile_source(t, k, src_file, files, fail) ==
    IF files[src_file] = 0 THEN 1 ELSE run_command(<<"COMPILE", t, k>>, fail)

\* A subprocess that exits 0 has written `path` at the current time and has
\* taken st.latency seconds.
Written(st, path) ==
    [st EXCEPT !.fs[path] = st.clock, !.clock = st.clock + st.latency]

\* Mutation of compile_one: every source is compiled, need_recompile is not
\* asked.
compile_one_always(t, i, st, fail) ==
    LET src == st.tg[t].sources[i]
        objname == ObjName(st.tg[t], src)
        rc == compile_source(t, i, src, st.fs, fail)
        s == [st EXCEPT !.log = Append(@, <<"COMPILE", t, i, rc>>),
                        !.lines = Append(@, [target |-> t, file |-> src,
                                             command |-> compile_command(st.tg[t], objname, src)])]
    IN IF rc # 0 THEN SetError(s)
       ELSE Written(s, objname)

\* One pass of the compile loop of build_target, for source i.
compile_one(t, i, st, fail) ==
    LET src == st.tg[t].sources[i]
        objname == ObjName(st.tg[t], src)
        depname == DepName(st.tg[t], src)
    IN IF need_recompile(src, objname, depname, st.fs)
       THEN LET rc == compile_source(t, i, src, st.fs, fail)
                s == [st EXCEPT !.log = Append(@, <<"COMPILE", t, i, rc>>),
                                !.lines = Append(@, [target |-> t, file |-> src,
                                    command |-> compile_command(st.tg[t], objname, src)])]
            IN IF rc # 0 THEN SetError(s)
               ELSE Written(s, objname)
       ELSE st

RECURSIVE compile_sources(_, _, _, _)
\* The compile loop of build_target, from source i: a failure leaves the
\* loop (goto cleanup).
compile_sources(t, i, st, fail) ==
    IF i > Len(st.tg[t].sources) THEN st
    ELSE Then(compile_one(t, i, st, fail),
              LAMBDA s : IF s.error_flag THEN s
                         ELSE compile_sources(t, i + 1, s, fail))

\* Mutation of needs_link: >= where the code has >, so a tie is stale.
needs_link_ties_stale(t, files) ==
    IF files[t.output_file] = 0 THEN TRUE
    ELSE \/ \E i \in 1..Len(t.sources) :
                \/ files[ObjName(t, t.sources[i])] = 0
                \/ files[ObjName(t, t.sources[i])] >= files[t.output_file]
         \/ \E i \in 1..Len(t.dependencies) :
                /\ files[t.dependencies[i].output_file] # 0
                /\ files[t.dependencies[i].output_file] >= files[t.output_file]

\* Mutation of needs_link: a dependency whose output is missing makes the
\* target stale.
needs_link_missing_dep_stale(t, files) ==
    IF files[t.output_file] = 0 THEN TRUE
    ELSE \/ \E i \in 1..Len(t.sources) :
                \/ files[ObjName(t, t.sources[i])] = 0
                \/ files[ObjName(t, t.sources[i])] > files[t.output_file]
         \/ \E i \in 1..Len(t.dependencies) :
                \/ files[t.dependencies[i].output_file] = 0
                \/ files[t.dependencies[i].output_file] > files[t.output_file]

\* Mutation of needs_link: the outputs of the dependencies are not looked at.
needs_link_objects_only(t, files) ==
    IF files[t.output_file] = 0 THEN TRUE
    ELSE \E i \in 1..Len(t.sources) :
            \/ files[ObjName(t, t.sources[i])] = 0
            \/ files[ObjName(t, t.sources[i])] > files[t.output_file]

\* needs_link of build_target.
needs_link(t, files) ==
    IF files[t.output_file] = 0 THEN TRUE
    ELSE \/ \E i \in 1..Len(t.sources) :
                \/ files[ObjName(t, t.sources[i])] = 0
                \/ files[ObjName(t, t.sources[i])] > files[t.output_file]
         \/ \E i \in 1..Len(t.dependencies) :
                /\ files[t.dependencies[i].output_file] # 0
                /\ files[t.dependencies[i].output_file] > files[t.output_file]

\* The target record with its dependencies as records, as the C pointers
\* give them.
Deref(tg, t) == [tg[t] EXCEPT !.dependencies = [i \in DOMAIN @ |-> tg[@[i]]]]

\* Mutation of link_step: the link is attempted although the compile loop
\* set error_flag.
link_step_after_error(t, s, fail) ==
    IF needs_link(Deref(s.tg, t), s.fs)
    THEN LET rc == run_command(<<"LINK", t>>, fail)
             s2 == [s EXCEPT !.log = Append(@, <<"LINK", t, rc>>)]
         IN IF rc # 0 THEN SetError(s2)
            ELSE [Written(s2, s.tg[t].output_file)
                      EXCEPT !.log = Append(@, <<"DONE", t>>)]
    ELSE [s EXCEPT !.log = Append(@, <<"DONE", t>>)]

\* The link part of build_target, after the compile loop left s.
link_step(t, s, fail) ==
    IF s.error_flag THEN s
    ELSE IF needs_link(Deref(s.tg, t), s.fs)
         THEN LET rc == run_command(<<"LINK", t>>, fail)
                  s2 == [s EXCEPT !.log = Append(@, <<"LINK", t, rc>>)]
              IN IF rc # 0 THEN SetError(s2)
                 ELSE [Written(s2, s.tg[t].output_file)
                           EXCEPT !.log = Append(@, <<"DONE", t>>)]
    ELSE [s EXCEPT !.log = Append(@, <<"DONE", t>>)]

\* build_target: compile what is stale, then archive or link if needed.
build_target(t, st, fail) ==
    Then(compile_sources(t, 1, [st EXCEPT !.log = Append(@, <<"BUILD", t>>)], fail),
         LAMBDA s : link_step(t, s, fail))

----------------------------------------------------------------------------
(* The scheduler *)

RECURSIVE dfs_build_func(_, _, _, _)
RECURSIVE dfs_target_dependencies(_, _, _, _, _)
RECURSIVE dfs_commands(_, _, _, _, _)

\* Mutation of dfs_commands: the loop body is never entered.
dfs_commands_skipped(cmds, i, st, fail, depth) == st

\* A loop of dfs_build_func over a list of commands (t->commands or
\* t->post_commands), from index i: left once error_flag is set.
dfs_commands(cmds, i, st, fail, depth) ==
    IF i > Len(cmds) THEN st
    ELSE Then(dfs_command_func(cmds[i], st, fail, depth + 1),
              LAMBDA s : IF s.crashed \/ s.error_flag THEN s
                         ELSE dfs_commands(cmds, i + 1, s, fail, depth))

\* Mutation of dfs_target_dependencies: the dependencies are not visited.
dfs_target_dependencies_skipped(t, i, st, fail, depth) == st

\* The loop of dfs_build_func over t->dependencies, from index i.
dfs_target_dependencies(t, i, st, fail, depth) ==
    IF i > Len(st.tg[t].dependencies) THEN st
    ELSE Then(dfs_build_func(st.tg[t].dependencies[i], st, fail, depth + 1),
              LAMBDA s : IF s.crashed \/ s.error_flag THEN s
                         ELSE dfs_target_dependencies(t, i + 1, s, fail, depth))

\* The end of dfs_build_func, after the post-command loop left s: the loop
\* returned early if it ran and error_flag is set.
dfs_finish(t, s) ==
    IF s.crashed THEN s
    ELSE IF s.error_flag /\ Len(s.tg[t].post_commands) > 0
         THEN [s EXCEPT !.in_stack[t] = FALSE]
    ELSE [s EXCEPT !.visited[t] = TRUE, !.in_stack[t] = FALSE]

\* Mutation of dfs_build_step: the post-command loop runs before
\* build_target.
dfs_build_step_post_first(t, s, fail, depth) ==
    IF s.crashed THEN s
    ELSE IF s.error_flag THEN [s EXCEPT !.in_stack[t] = FALSE]
    ELSE Then(dfs_commands(s.tg[t].post_commands, 1, s, fail, depth),
              LAMBDA p : IF p.crashed \/ p.error_flag THEN dfs_finish(t, p)
                         ELSE dfs_finish(t, build_target(t, p, fail)))

\* dfs_build_func from the call of build_target on, after the loop over
\* the target dependencies left s.
dfs_build_step(t, s, fail, depth) ==
    IF s.crashed THEN s
    ELSE IF s.error_flag THEN [s EXCEPT !.in_stack[t] = FALSE]
    ELSE Then(build_target(t, s, fail),
              LAMBDA b : Then(dfs_commands(b.tg[t].post_commands, 1, b, fail, depth),
                              LAMBDA p : dfs_finish(t, p)))

\* dfs_build_func from the loop over the target dependencies on, after the
\* pre-command loop left s.
dfs_dependencies_step(t, s, fail, depth) ==
    IF s.crashed THEN s
    ELSE IF s.error_flag THEN [s EXCEPT !.in_stack[t] = FALSE]
    ELSE Then(dfs_target_dependencies(t, 1, s, fail, depth),
              LAMBDA d : dfs_build_step(t, d, fail, depth))

\* Mutation of dfs_build_func: visited[ti] is not looked at.
dfs_build_func_revisiting(t, st, fail, depth) ==
    IF depth > StackLimit THEN Crash(st)
    ELSE IF st.error_flag THEN st
    ELSE IF st.in_stack[t]
         THEN SetError([st EXCEPT !.log = Append(@, <<"CYCLE", t>>)])
    ELSE Then(dfs_commands(st.tg[t].commands, 1, [st EXCEPT !.in_stack[t] = TRUE], fail, depth),
              LAMBDA s : dfs_dependencies_step(t, s, fail, depth))

\* dfs_build_func: the target visitor.
dfs_build_func(t, st, fail, depth) ==
    IF depth > StackLimit THEN Crash(st)
    ELSE IF st.error_flag THEN st
    ELSE IF st.in_stack[t]
         THEN SetError([st EXCEPT !.log = Append(@, <<"CYCLE", t>>)])
    ELSE IF st.visited[t] THEN st
    ELSE Then(dfs_commands(st.tg[t].commands, 1, [st EXCEPT !.in_stack[t] = TRUE], fail, depth),
              LAMBDA s : dfs_dependencies_step(t, s, fail, depth))

RECURSIVE build_all(_, _, _)
\* The loop of cbuild_run over the registry, from index i: every target not
\* yet visited, until error_flag is set.
build_all(i, st, fail) ==
    IF i > Len(st.tg) THEN st
    ELSE IF ~st.visited[i]
         THEN Then(dfs_build_func(i, st, fail, 1),
                   LAMBDA s : IF s.crashed \/ s.error_flag THEN s
                              ELSE build_all(i + 1, s, fail))
    ELSE build_all(i + 1, st, fail)

\* cbuild_init: the output directory defaults to "build".
cbuild_init(output_dir) == IF output_dir = NULL THEN "build" ELSE output_dir

\* The end of a successful default build: with generation enabled the
\* index is written to <g_output_dir>/compile_commands.json.
write_compile_commands(st) ==
    LET path == <<cbuild_init(g_output_dir), "compile_commands.json">>
    IN IF g_generate_compile_commands /\ path \in DOMAIN st.fs
       THEN [st EXCEPT !.fs[path] = st.clock]
       ELSE st

\* cbuild_run returns rc.
Return(st, rc) == [st EXCEPT !.rc = rc]

\* Mutation of default_build: the index is written after a failed build
\* too.
default_build_index_on_failure(st, fail) ==
    Then(build_all(1, st, fail),
         LAMBDA s : IF s.crashed THEN s
                    ELSE IF s.error_flag THEN Return(write_compile_commands(s), 1)
                    ELSE Return(write_compile_commands(s), 0))

\* The default build of cbuild_run: every target, in registration order;
\* 0 unless error_flag is set.
default_build(st, fail) ==
    Then(build_all(1, st, fail),
         LAMBDA s : IF s.crashed THEN s
                    ELSE IF s.error_flag THEN Return(s, 1)
                    ELSE Return(write_compile_commands(s), 0))

----------------------------------------------------------------------------
(* Text: the manifest *)

\* A text is a sequence of atoms: a blank " ", a slash "/", a newline "\n",
\* or a run of other characters.  The atoms of the strings of the model that
\* are not a single run:
Atoms(s) ==
    CASE s = "" -> <<>>
      [] s = "my lib" -> <<"my", " ", "lib">>
      [] s = "libmy lib.a" -> <<"libmy", " ", "lib.a">>
      [] OTHER -> <<s>>

\* The text of a path: its components, a slash between them.
PathText(path) ==
    LET f[i \in 0..Len(path)] ==
            IF i = 0 THEN <<>>
            ELSE IF i = 1 THEN Atoms(path[1])
            ELSE f[i - 1] \o <<"/">> \o Atoms(path[i])
    IN f[Len(path)]

\* The type string of the manifest (NULL: the switch's default).
KindText(type) ==
    CASE type = "TARGET_STATIC_LIB" -> "static_lib"
      [] type = "TARGET_SHARED_LIB" -> "shared_lib"
      [] type = "TARGET_EXECUTABLE" -> "executable"
      [] OTHER -> NULL

\* What manifest mode prints for target t: printf("%s %s %s\n", type,
\* t->name, t->output_file), or nothing.
manifest_line(t) ==
    IF t.output_file = NullPath \/ t.name = NULL THEN <<>>
    ELSE IF KindText(t.type) = NULL THEN <<>>
    ELSE <<KindText(t.type), " ">> \o Atoms(t.name) \o <<" ">>
             \o PathText(t.output_file) \o <<"\n">>

\* Manifest mode: the text printed to stdout, target after target.
print_manifest(tg) ==
    LET f[i \in 0..Len(tg)] ==
            IF i = 0 THEN <<>> ELSE f[i - 1] \o manifest_line(tg[i])
    IN f[Len(tg)]

----------------------------------------------------------------------------
(* cbuild_run *)

\* Path p is dir or lies under it.
Under(p, dir) ==
    /\ dir # NullPath
    /\ Len(p) >= Len(dir)
    /\ SubSeq(p, 1, Len(dir)) = dir

\* remove_file(path): nothing for a null path, else the file is gone.
remove_file(st, path) ==
    IF path = NullPath THEN st
    ELSE [st EXCEPT !.fs = [p \in DOMAIN @ |-> IF p = path THEN 0 ELSE @[p]],
                    !.log = Append(@, <<"RM", path>>)]

\* remove_dir_recursive(path): nothing for a null path, else everything
\* under the directory is gone, and the directory.
remove_dir_recursive(st, path) ==
    IF path = NullPath THEN st
    ELSE [st EXCEPT !.fs = [p \in DOMAIN @ |-> IF Under(p, path) THEN 0 ELSE @[p]],
                    !.log = Append(@, <<"RMDIR", path>>)]

RECURSIVE clean_subprojects_until_failure(_, _, _, _)
\* Mutation of clean_subprojects: the first failing subproject clean ends
\* the loop.
clean_subprojects_until_failure(subprojects, i, st, fail) ==
    IF i > Len(subprojects) THEN st
    ELSE LET rc == run_command(<<"CLEAN", i>>, fail)
             s == [st EXCEPT !.log = Append(@, <<"CLEAN", i, rc>>)]
         IN IF rc # 0 THEN s
            ELSE clean_subprojects_until_failure(subprojects, i + 1,
                     [s EXCEPT !.fs = [p \in DOMAIN @ |->
                          IF Under(p, <<subprojects[i].directory, "build">>)
                          THEN 0 ELSE @[p]]],
                     fail)

RECURSIVE clean_subprojects(_, _, _, _)
\* The first loop of clean: "cd dir && exe clean" for each subproject; a
\* failure is a warning.  The child removes what it built.
clean_subprojects(subprojects, i, st, fail) ==
    IF i > Len(subprojects) THEN st
    ELSE LET rc == run_command(<<"CLEAN", i>>, fail)
             s == [st EXCEPT !.log = Append(@, <<"CLEAN", i, rc>>)]
         IN clean_subprojects(subprojects, i + 1,
                IF rc # 0 THEN s
                ELSE [s EXCEPT !.fs = [p \in DOMAIN @ |->
                          IF Under(p, <<subprojects[i].directory, "build">>)
                          THEN 0 ELSE @[p]]],
                fail)

RECURSIVE clean_targets(_, _)
\* The second loop of clean: obj_dir, then output_file, of each target in
\* registration order.
clean_targets(i, st) ==
    IF i > Len(st.tg) THEN st
    ELSE Then(remove_dir_recursive(st, st.tg[i].obj_dir),
              LAMBDA s1 : Then(remove_file(s1, s1.tg[i].output_file),
                               LAMBDA s2 : clean_targets(i + 1, s2)))

\* clean: the subprojects, then obj_dir and output_file of every target,
\* then the output directory; returns 0.
clean(st, subprojects, output_dir, fail) ==
    Then(clean_subprojects(subprojects, 1, st, fail),
         LAMBDA s : Then(clean_targets(1, s),
                         LAMBDA s1 : Return(remove_dir_recursive(s1, <<output_dir>>), 0)))

\* The index of the first registered subcommand named name, 0 if none.
find_subcommand(subcommands, name) ==
    IF \E i \in DOMAIN subcommands : subcommands[i].name = name
    THEN CHOOSE i \in DOMAIN subcommands :
             /\ subcommands[i].name = name
             /\ \A j \in 1..(i - 1) : subcommands[j].name # name
    ELSE 0

\* Mutation of subcommand_self: error_flag is not looked at, the
\* subcommand runs after a failed build too.
subcommand_self_after_failure(subcommands, sci, s, fail) ==
    IF s.crashed THEN s
    ELSE IF subcommands[sci].command_line # NULL
         THEN LET rc == run_command(<<"SUBCMD", sci>>, fail)
              IN Return([s EXCEPT !.log = Append(@, <<"SUBCMD", sci, rc>>)], rc)
    ELSE IF subcommands[sci].callback
         THEN Return([s EXCEPT !.log = Append(@, <<"CALLBACK", sci>>)], 0)
    ELSE Return(s, 0)

\* What the subcommand does once its target's visit left s: return 1 on a
\* failed build, else the status of the shell line; a callback returns
\* nothing and rc stays 0.
subcommand_self(subcommands, sci, s, fail) ==
    IF s.crashed THEN s
    ELSE IF s.error_flag THEN Return(s, 1)
    ELSE IF subcommands[sci].command_line # NULL
         THEN LET rc == run_command(<<"SUBCMD", sci>>, fail)
              IN Return([s EXCEPT !.log = Append(@, <<"SUBCMD", sci, rc>>)], rc)
    ELSE IF subcommands[sci].callback
         THEN Return([s EXCEPT !.log = Append(@, <<"CALLBACK", sci>>)], 0)
    ELSE Return(s, 0)

\* A registered subcommand: build its target (a null target is not in the
\* registry: nothing is built), then run it.
run_subcommand(subcommands, sci, st, fail) ==
    Then(IF subcommands[sci].target = 0 THEN st
         ELSE dfs_build_func(subcommands[sci].target, st, fail, 1),
         LAMBDA s : subcommand_self(subcommands, sci, s, fail))

\* The state a call of cbuild_run starts in.
StartState(tg, cm, files, now, lat) ==
    [ tg |-> tg, cmds |-> cm, fs |-> files, clock |-> now, latency |-> lat,
      visited |-> [i \in DOMAIN tg |-> FALSE],
      in_stack |-> [i \in DOMAIN tg |-> FALSE],
      error_flag |-> FALSE, crashed |-> FALSE, log |-> <<>>,
      rc |-> 0, out |-> <<>>,
      writes |-> [c \in DOMAIN cm |-> {}],
      lines |-> <<>>, cc_entries |-> g_cc_entries ]

\* Mutation of collect_command: the per-target cflags are left out, the
\* global ones are always recorded.
collect_command_global_cflags(t, objname, src_file) ==
    << Quoted(g_cc) \o " ", "-c -o " \o Quoted(PathString(objname)) \o " " >>
        \o (IF g_global_cflags # NULL THEN << g_global_cflags \o " " >> ELSE <<>>)
        \o [j \in DOMAIN t.include_dirs |-> "-I" \o Quoted(t.include_dirs[j]) \o " "]
        \o [j \in DOMAIN g_global_defines |-> "-D" \o g_global_defines[j] \o " "]
        \o [j \in DOMAIN t.defines |-> "-D" \o t.defines[j] \o " "]
        \o << Quoted(PathString(src_file)) >>

\* The command collect_compile_commands_for_target builds for a source
\* (the Unix form), one piece per append_format call.
collect_command(t, objname, src_file) ==
    << Quoted(g_cc) \o " ", "-c -o " \o Quoted(PathString(objname)) \o " " >>
        \o (IF t.cflags # NULL /\ t.cflags # "" THEN << t.cflags \o " " >>
            ELSE IF g_global_cflags # NULL THEN << g_global_cflags \o " " >>
            ELSE <<>>)
        \o [j \in DOMAIN t.include_dirs |-> "-I" \o Quoted(t.include_dirs[j]) \o " "]
        \o [j \in DOMAIN g_global_defines |-> "-D" \o g_global_defines[j] \o " "]
        \o [j \in DOMAIN t.defines |-> "-D" \o t.defines[j] \o " "]
        \o << Quoted(PathString(src_file)) >>

\* collect_compile_commands_for_target(t): nothing when generation is
\* disabled, else one entry per source of t appended to the index.
collect_compile_commands_for_target(t, entries) ==
    IF ~g_generate_compile_commands THEN entries
    ELSE entries \o [i \in DOMAIN t.sources |->
                        [ directory |-> "cwd",
                          command |-> collect_command(t, ObjName(t, t.sources[i]), t.sources[i]),
                          file |-> t.sources[i] ]]

\* The loop of cbuild_run over the targets, adding to entries.
collect_all(tg, entries) ==
    LET f[i \in 0..Len(tg)] ==
            IF i = 0 THEN entries
            ELSE collect_compile_commands_for_target(tg[i], f[i - 1])
    IN f[Len(tg)]

\* Mutation of cbuild_run_start: the index of the previous call is kept.
cbuild_run_start_keeping_entries(st) ==
    [st EXCEPT !.cc_entries =
        IF g_generate_compile_commands THEN collect_all(st.tg, @) ELSE @]

\* Mutation of cbuild_run_start: the executed flags of the commands are
\* cleared when a run starts.
cbuild_run_start_resetting_commands(st) ==
    [st EXCEPT !.cc_entries =
                   IF g_generate_compile_commands THEN collect_all(st.tg, <<>>) ELSE <<>>,
               !.cmds = [c \in DOMAIN @ |-> [@[c] EXCEPT !.executed = FALSE]]]

\* The start of cbuild_run: the index is emptied, then filled for every
\* target if generation is enabled.
cbuild_run_start(st) ==
    [st EXCEPT !.cc_entries =
        IF g_generate_compile_commands THEN collect_all(st.tg, <<>>) ELSE <<>>]

\* Mutation of cbuild_run: an argument that names nothing is an error.
cbuild_run_unknown_is_error(argv, st, subcommands, subprojects, output_dir, fail) ==
    Then(cbuild_run_start(st), LAMBDA s0 :
        IF argv # <<>> /\ argv[1] = "--manifest"
        THEN [s0 EXCEPT !.out = print_manifest(s0.tg)]
        ELSE IF argv # <<>> /\ argv[1] = "clean"
             THEN clean(s0, subprojects, cbuild_init(output_dir), fail)
        ELSE IF argv # <<>> /\ find_subcommand(subcommands, argv[1]) # 0
             THEN run_subcommand(subcommands, find_subcommand(subcommands, argv[1]), s0, fail)
        ELSE IF argv # <<>> THEN Return(s0, 1)
        ELSE default_build(s0, fail))

\* cbuild_run(argc, argv): argv holds the arguments after the program name.
\* --manifest, clean, a registered subcommand; anything else is the default
\* build.
cbuild_run(argv, st, subcommands, subprojects, output_dir, fail) ==
    Then(cbuild_run_start(st), LAMBDA s0 :
        IF argv # <<>> /\ argv[1] = "--manifest"
        THEN [s0 EXCEPT !.out = print_manifest(s0.tg)]
        ELSE IF argv # <<>> /\ argv[1] = "clean"
             THEN clean(s0, subprojects, cbuild_init(output_dir), fail)
        ELSE IF argv # <<>> /\ find_subcommand(subcommands, argv[1]) # 0
             THEN run_subcommand(subcommands, find_subcommand(subcommands, argv[1]), s0, fail)
        ELSE default_build(s0, fail))

\* The record kept of a cbuild_run call.
RunRecord(argv, st, cm0, files0, now0) ==
    [ argv |-> argv,
      rc |-> st.rc,
      crashed |-> st.crashed,
      log |-> st.log,
      out |-> st.out,
      cmds0 |-> cm0,
      fs0 |-> files0,
      fs1 |-> st.fs,
      clock0 |-> now0,
      latency |-> st.latency,
      lines |-> st.lines,
      cc_entries |-> st.cc_entries ]

----------------------------------------------------------------------------
(* Subprojects: reading a manifest, proxy targets *)

\* The concatenation of the atoms of a text: the C string.
Join(text) ==
    LET f[i \in 0..Len(text)] == IF i = 0 THEN "" ELSE f[i - 1] \o text[i]
    IN f[Len(text)]

\* strtok: a token of text for the delimiter sep is a maximal run of atoms
\* other than sep.  Where the tokens start, where the n-th starts, and where
\* the token that starts at i ends.
TokenStarts(text, sep) ==
    {i \in DOMAIN text : text[i] # sep /\ (i = 1 \/ text[i - 1] = sep)}
TokenStart(text, sep, n) ==
    CHOOSE i \in TokenStarts(text, sep) :
        Cardinality({j \in TokenStarts(text, sep) : j < i}) = n - 1
TokenEnd(text, sep, i) ==
    CHOOSE j \in i..Len(text) :
        /\ \A k \in i..j : text[k] # sep
        /\ (j = Len(text) \/ text[j + 1] = sep)

\* The tokens of text, in order.
Tokens(text, sep) ==
    [n \in 1..Cardinality(TokenStarts(text, sep)) |->
        SubSeq(text, TokenStart(text, sep, n), TokenEnd(text, sep, TokenStart(text, sep, n)))]

\* cbuild__trim: cuts the blanks at the end of a string that is not all
\* blanks (the blanks at its start stay).
cbuild__trim(text) ==
    IF \A i \in DOMAIN text : text[i] = " " THEN text
    ELSE SubSeq(text, 1, CHOOSE j \in DOMAIN text :
                             text[j] # " " /\ \A k \in (j + 1)..Len(text) : text[k] = " ")

\* The three strtok calls on a line: type and name are the first two
\* blank-separated tokens, path is the rest of the line after the one blank
\* that ended name.  NULL where strtok returns NULL.
ParseLine(line) ==
    LET toks == Tokens(line, " ")
        rest == TokenEnd(line, " ", TokenStart(line, " ", 2)) + 2
    IN [ type |-> IF Len(toks) >= 1 THEN toks[1] ELSE NULL,
         name |-> IF Len(toks) >= 2 THEN toks[2] ELSE NULL,
         path |-> IF Len(toks) >= 2 /\ rest <= Len(line)
                  THEN cbuild__trim(SubSeq(line, rest, Len(line)))
                  ELSE NULL ]

\* The records cbuild__parse_manifest makes of the driver's output: the
\* lines that are not empty and hold a type, a name and a path.
ParseManifest(text) ==
    LET lines == Tokens(text, "\n")
        rec(l) == ParseLine(cbuild__trim(l))
        keep == {i \in DOMAIN lines :
                    /\ cbuild__trim(lines[i]) # <<>>
                    /\ cbuild__trim(lines[i])[1] # "#"
                    /\ rec(lines[i]).type # NULL
                    /\ rec(lines[i]).name # NULL
                    /\ rec(lines[i]).path # NULL}
        nth(n) == CHOOSE i \in keep : Cardinality({j \in keep : j < i}) = n - 1
    IN [n \in 1..Cardinality(keep) |->
            [ name |-> rec(lines[nth(n)]).name,
              type |-> rec(lines[nth(n)]).type,
              output_path |-> rec(lines[nth(n)]).path,
              proxy_target |-> 0 ]]

\* Mutation of cbuild__parse_manifest: the child's exit status is not
\* looked at, what it printed is parsed.
cbuild__parse_manifest_ignoring_status(sub, rc, output) ==
    IF sub.manifest_loaded THEN sub
    ELSE IF output = <<>> THEN sub
    ELSE [sub EXCEPT !.targets = @ \o ParseManifest(output),
                     !.manifest_loaded = TRUE]

\* cbuild__parse_manifest(sub): nothing when the manifest is loaded; else
\* runs "cd dir && exe --manifest", which exits with rc and prints output.
\* A failed child, or one that printed nothing (the captured output is a
\* null pointer then), leaves sub as it was; else the records are appended
\* and the manifest is loaded.
cbuild__parse_manifest(sub, rc, output) ==
    IF sub.manifest_loaded THEN sub
    ELSE IF rc # 0 \/ output = <<>> THEN sub
    ELSE [sub EXCEPT !.targets = @ \o ParseManifest(output),
                     !.manifest_loaded = TRUE]

\* cbuild__find_subproject_target, once the manifest is parsed: the index
\* of the first record named tgt_name, 0 if there is none.
cbuild__find_subproject_target(sub, tgt_name) ==
    IF \E i \in DOMAIN sub.targets : sub.targets[i].name = Atoms(tgt_name)
    THEN CHOOSE i \in DOMAIN sub.targets :
             /\ sub.targets[i].name = Atoms(tgt_name)
             /\ \A j \in 1..(i - 1) : sub.targets[j].name # Atoms(tgt_name)
    ELSE 0

\* cbuild__join_path(a, b): a, a slash, b - as a path, a's component and
\* then those of the text b.
cbuild__join_path(a, b) ==
    LET comps == Tokens(b, "/")
    IN <<a>> \o [n \in DOMAIN comps |-> Join(comps[n])]

\* The target type a manifest type string stands for, NULL if unknown.
TypeOf(text) ==
    CASE text = <<"static_lib">> -> "TARGET_STATIC_LIB"
      [] text = <<"shared_lib">> -> "TARGET_SHARED_LIB"
      [] text = <<"executable">> -> "TARGET_EXECUTABLE"
      [] OTHER -> NULL

\* cbuild_add_subproject(alias, directory, cbuild_exe): creates the build
\* command "cd 'directory' && 'cbuild_exe'" and appends the subproject.
\* driver is the registry the build script in that directory sets up.
cbuild_add_subproject(cm, subprojects, alias, directory, driver) ==
    [ cmds |-> Append(cm, cbuild_command("build subproject " \o alias)),
      subprojects |-> Append(subprojects,
          [ alias |-> alias, directory |-> directory, driver |-> driver,
            build_cmd |-> Len(cm) + 1,
            manifest_loaded |-> FALSE, targets |-> <<>> ]) ]

\* The proxy target cbuild_subproject_get_target creates for the record
\* stgt of sub.
ProxyTarget(sub, stgt) ==
    [ type |-> TypeOf(stgt.type),
      name |-> sub.alias \o "_" \o Join(stgt.name),
      sources |-> <<>>,
      dependencies |-> <<>>,
      commands |-> <<sub.build_cmd>>,
      post_commands |-> <<>>,
      output_file |-> cbuild__join_path(sub.directory, stgt.output_path),
      obj_dir |-> NullPath,
      cflags |-> NULL,
      include_dirs |-> <<>>,
      lib_dirs |-> <<>>,
      link_libs |-> <<>>,
      defines |-> <<>> ]

\* Mutation of get_target_found: the cached proxy is not looked at, every
\* call creates a proxy.
get_target_found_uncached(tg, sub, k) ==
    IF k = 0 THEN [tg |-> tg, sub |-> sub, ret |-> 0]
    ELSE IF TypeOf(sub.targets[k].type) = NULL THEN [tg |-> tg, sub |-> sub, ret |-> 0]
    ELSE [ tg |-> Append(tg, ProxyTarget(sub, sub.targets[k])),
           sub |-> [sub EXCEPT !.targets[k].proxy_target = Len(tg) + 1],
           ret |-> Len(tg) + 1 ]

\* What cbuild_subproject_get_target does with the record k of sub that
\* cbuild__find_subproject_target found: [tg, sub, ret], ret the index of
\* the target returned, 0 for NULL.
get_target_found(tg, sub, k) ==
    IF k = 0 THEN [tg |-> tg, sub |-> sub, ret |-> 0]
    ELSE IF sub.targets[k].proxy_target # 0
         THEN [tg |-> tg, sub |-> sub, ret |-> sub.targets[k].proxy_target]
    ELSE IF TypeOf(sub.targets[k].type) = NULL THEN [tg |-> tg, sub |-> sub, ret |-> 0]
    ELSE [ tg |-> Append(tg, ProxyTarget(sub, sub.targets[k])),
           sub |-> [sub EXCEPT !.targets[k].proxy_target = Len(tg) + 1],
           ret |-> Len(tg) + 1 ]

\* cbuild_subproject_get_target(sub, tgt_name); rc is the exit status of the
\* child's manifest mode and output what it prints, should it be run.
cbuild_subproject_get_target(tg, sub, tgt_name, rc, output) ==
    Then(cbuild__parse_manifest(sub, rc, output),
         LAMBDA s1 : get_target_found(tg, s1, cbuild__find_subproject_target(s1, tgt_name)))

\* cbuild_set_output_dir(dir)
cbuild_set_output_dir(dir) == dir

----------------------------------------------------------------------------
(* States and actions *)

\* The state the build script leaves: cbuild_set_output_dir("build") was
\* called first, then the graph of at most MaxEdges edges was registered;
\* no command executed, every source present, no artifact yet.
Init ==
    /\ g_output_dir = "build"
    /\ g_subprojects = <<>>
    /\ g_subcommands = <<>>
    /\ g_global_cflags = NULL
    /\ g_global_defines = <<>>
    /\ g_generate_compile_commands = FALSE
    /\ g_cc_entries = <<>>
    /\ pc = "alive"
    /\ calls = <<>>
    /\ \E E \in SubsetsUpTo(AllEdges, MaxEdges) :
          /\ g_targets = [i \in Targets |-> ScriptTarget(i, E)]
          /\ g_commands = [c \in Commands |-> ScriptCommand(c, E)]
    /\ fs = [p \in Paths |-> IF p \in SourceFiles THEN 1 ELSE 0]
    /\ clock = 1
    /\ latency = 1
    /\ runs = <<>>

\* The build script calls cbuild_run_command(c) itself, before cbuild_run.
RunCommand(c) ==
    /\ runs = <<>>
    /\ \E fail \in {NoFail} \cup Steps(g_targets, g_commands) :
          \E r \in {cbuild_run_command(c, StartState(g_targets, g_commands, fs, clock, latency),
                                        fail, 1)} :
             /\ ~r.st.crashed
             /\ g_commands' = r.st.cmds
    /\ UNCHANGED <<g_targets, settings, g_cc_entries, fs, clock, latency, runs>>

\* The shell lines of a call of cbuild_run that can fail.
RunSteps ==
    Steps(g_targets, g_commands)
        \cup {<<"SUBCMD", i>> : i \in DOMAIN g_subcommands}
        \cup {<<"CLEAN", i>> : i \in DOMAIN g_subprojects}

\* One call of cbuild_run with the arguments argv, the commands leaving
\* the files writes, the environment failing one of the steps fails.
RunFailing(argv, writes, fails) ==
    /\ \E fail \in fails :
          \E st \in {cbuild_run(argv,
                                [StartState(g_targets, g_commands, fs, clock, latency)
                                     EXCEPT !.writes = writes],
                                g_subcommands, g_subprojects, g_output_dir, fail)} :
             /\ g_commands' = st.cmds
             /\ fs' = st.fs
             /\ clock' = st.clock
             /\ g_cc_entries' = st.cc_entries
             /\ runs' = Append(runs, RunRecord(argv, st, g_commands, fs, clock))
    /\ UNCHANGED <<g_targets, settings, latency>>

\* One call of cbuild_run with the arguments argv, the commands leaving
\* the files writes; any one step can fail, or none.
RunWriting(argv, writes) == RunFailing(argv, writes, {NoFail} \cup RunSteps)

\* One call of cbuild_run with the arguments argv in a build without
\* subprojects.
Run(argv) == RunWriting(argv, [c \in DOMAIN g_commands |-> {}])

\* The first cbuild_run of the process (argc = 1).
FirstRun == runs = <<>> /\ Run(<<>>)

Next == (\E c \in Commands : RunCommand(c)) \/ FirstRun

\* The scheduler on every graph of the build script: commands run directly,
\* then one cbuild_run.
Spec == Init /\ [][Next]_vars

----------------------------------------------------------------------------
(* Command lines *)

\* The build script with a subcommand registered, on every graph of at most
\* MaxArgEdges edges.
InitArgs ==
    /\ g_output_dir = "build"
    /\ g_subprojects = <<>>
    /\ g_subcommands = Calls(cbuild_register_subcommand, <<>>, SubcommandDefs)
    /\ g_global_cflags = NULL
    /\ g_global_defines = <<>>
    /\ g_generate_compile_commands = FALSE
    /\ g_cc_entries = <<>>
    /\ pc = "alive"
    /\ calls = <<>>
    /\ \E E \in SubsetsUpTo(AllEdges, MaxArgEdges) :
          /\ g_targets = [i \in Targets |-> ScriptTarget(i, E)]
          /\ g_commands = [c \in Commands |-> ScriptCommand(c, E)]
    /\ fs = [p \in Paths |-> IF p \in SourceFiles THEN 1 ELSE 0]
    /\ clock = 1
    /\ latency = 1
    /\ runs = <<>>

\* The command lines the build is invoked with: no argument, clean,
\* --manifest, a registered subcommand with a shell line or with a
\* callback, a target's name, something else.
Args == {<<>>, <<"clean">>, <<"--manifest">>, <<"test">>, <<"hello">>, <<"main">>, <<"frob">>}

\* The cbuild_run of the process, with any of the command lines.
ArgRun == runs = <<>> /\ \E argv \in Args : Run(argv)

NextArgs == (\E c \in Commands : RunCommand(c)) \/ ArgRun

\* Commands run directly, then one cbuild_run with arguments.
SpecArgs == InitArgs /\ [][NextArgs]_vars

----------------------------------------------------------------------------
(* Build scripts with a subproject: the registration calls as steps *)

\* The registries of the subproject's build script: a library and a tool,
\* or a library whose name holds a blank.
Drivers ==
    { << create_target_in("build", "math", "TARGET_STATIC_LIB"),
         create_target_in("build", "tool", "TARGET_EXECUTABLE") >>,
      << create_target_in("build", "my lib", "TARGET_STATIC_LIB") >> }

\* The output directories the build script may set, the target it
\* creates, the names it asks the subproject for.
OutputDirs == {"out"}
ScriptNames == {"app"}
ScriptTypes == {"TARGET_EXECUTABLE"}
AskedNames == {"math", "my", "nope"}

\* The files of the build: the outputs the targets can have, the artifacts
\* of the subproject, the outputs its proxy targets can have.
SubPaths ==
    {create_target_in(d, n, k).output_file :
         d \in OutputDirs \cup {NULL}, n \in ScriptNames, k \in ScriptTypes}
      \cup UNION {{<<"lib">> \o D[i].output_file : i \in DOMAIN D} : D \in Drivers}
      \cup UNION {{cbuild__join_path("lib", ParseManifest(print_manifest(D))[i].output_path)
                      : i \in DOMAIN ParseManifest(print_manifest(D))} : D \in Drivers}

\* The build script before its first call: g_output_dir is still NULL.
InitSub ==
    /\ g_targets = <<>>
    /\ g_commands = <<>>
    /\ g_subcommands = <<>>
    /\ g_global_cflags = NULL
    /\ g_global_defines = <<>>
    /\ g_generate_compile_commands = FALSE
    /\ g_cc_entries = <<>>
    /\ g_subprojects = <<>>
    /\ g_output_dir = NULL
    /\ pc = "alive"
    /\ calls = <<>>
    /\ fs = [p \in SubPaths |-> 0]
    /\ clock = 1
    /\ latency = 1
    /\ runs = <<>>

\* The build script is still registering.
Registering == pc = "alive" /\ runs = <<>>

\* cbuild_set_output_dir(dir)
SetOutputDir(dir) ==
    /\ Registering
    /\ g_output_dir # dir
    /\ g_output_dir' = cbuild_set_output_dir(dir)
    /\ UNCHANGED <<g_targets, g_commands, g_subcommands, g_subprojects, pc, calls,
                   g_global_cflags, g_global_defines, g_generate_compile_commands,
                   g_cc_entries, fs, clock, latency, runs>>

\* cbuild_executable(name), cbuild_static_library(name).  While g_output_dir
\* is NULL the "%s" of the formats is given a null pointer, which is
\* undefined: the process prints "(null)" or dies.
CreateTarget(name, type) ==
    /\ Registering
    /\ Len(g_targets) < MaxTargets
    /\ \/ /\ g_targets' = Append(g_targets, cbuild_create_target(name, type))
          /\ pc' = pc
       \/ /\ g_output_dir = NULL
          /\ pc' = "crashed"
          /\ g_targets' = g_targets
    /\ UNCHANGED <<g_commands, g_subcommands, g_subprojects, g_output_dir, calls,
                   g_global_cflags, g_global_defines, g_generate_compile_commands,
                   g_cc_entries, fs, clock, latency, runs>>

\* cbuild_add_subproject("lib", "lib", "./cbuild"), the build script in lib
\* being driver.
AddSubproject(driver) ==
    /\ Registering
    /\ g_subprojects = <<>>
    /\ \E r \in {cbuild_add_subproject(g_commands, g_subprojects, "lib", "lib", driver)} :
          /\ g_commands' = r.cmds
          /\ g_subprojects' = r.subprojects
    /\ UNCHANGED <<g_targets, g_subcommands, g_output_dir, pc, calls,
                   g_global_cflags, g_global_defines, g_generate_compile_commands,
                   g_cc_entries, fs, clock, latency, runs>>

\* cbuild_subproject_get_target(sub, name), sub the s-th subproject.
GetTarget(s, name) ==
    /\ Registering
    /\ Len(calls) < MaxCalls
    /\ \E rc \in IF g_subprojects[s].manifest_loaded THEN {0} ELSE {0, 1} :
          \E r \in {cbuild_subproject_get_target(g_targets, g_subprojects[s], name, rc,
                                                    print_manifest(g_subprojects[s].driver))} :
             /\ g_targets' = r.tg
             /\ g_subprojects' = [g_subprojects EXCEPT ![s] = r.sub]
             /\ calls' = Append(calls, [sub |-> s, name |-> name, ret |-> r.ret,
                                        loaded |-> r.sub.manifest_loaded,
                                        before |-> g_targets, after |-> r.tg])
    /\ UNCHANGED <<g_commands, g_subcommands, g_output_dir, pc,
                   g_global_cflags, g_global_defines, g_generate_compile_commands,
                   g_cc_entries, fs, clock, latency, runs>>

\* What the build command of each subproject leaves when its driver made
\* its artifacts (made), and when it exited 0 without them.
SubprojectWrites(made) ==
    [c \in DOMAIN g_commands |->
        IF made
        THEN UNION {{<<g_subprojects[s].directory>> \o g_subprojects[s].driver[i].output_file
                        : i \in DOMAIN g_subprojects[s].driver}
                    : s \in {x \in DOMAIN g_subprojects : g_subprojects[x].build_cmd = c}}
        ELSE {}]

\* The cbuild_run that ends the build script: default build, clean or
\* manifest mode.
SubRun ==
    /\ Registering
    /\ \/ \E made \in BOOLEAN : RunWriting(<<>>, SubprojectWrites(made))
       \/ \E argv \in {<<"clean">>, <<"--manifest">>} :
              RunWriting(argv, SubprojectWrites(TRUE))

NextSub ==
    \/ \E dir \in OutputDirs : SetOutputDir(dir)
    \/ \E name \in ScriptNames : \E type \in ScriptTypes : CreateTarget(name, type)
    \/ \E driver \in Drivers : AddSubproject(driver)
    \/ \E s \in DOMAIN g_subprojects : \E name \in AskedNames : GetTarget(s, name)
    \/ SubRun

\* A build script that registers targets, a subproject and proxy targets
\* in any order, then calls cbuild_run.
SpecSub == InitSub /\ [][NextSub]_vars

----------------------------------------------------------------------------
(* Clean: a build script with subprojects, on a disk that holds artifacts *)

\* The directories (and aliases) of the subprojects, in registration order.
SubprojectDirs == <<"lib", "ext", "vendor", "third">>

\* The registry of each subproject's build script.
CleanDriver == << create_target_in("build", "math", "TARGET_STATIC_LIB") >>

RECURSIVE AddSubprojects(_, _, _)
\* cbuild_add_subproject for the directories k..n.
AddSubprojects(k, n, r) ==
    IF k > n THEN r
    ELSE Then(cbuild_add_subproject(r.cmds, r.subprojects,
                                    SubprojectDirs[k], SubprojectDirs[k], CleanDriver),
              LAMBDA r1 : AddSubprojects(k + 1, n, r1))

RECURSIVE GetProxies(_, _)
\* cbuild_subproject_get_target(sub, "math") for the subprojects from k on:
\* r is [tg, subprojects].
GetProxies(k, r) ==
    IF k > Len(r.subprojects) THEN r
    ELSE Then(cbuild_subproject_get_target(r.tg, r.subprojects[k], "math", 0,
                                           print_manifest(r.subprojects[k].driver)),
              LAMBDA g : GetProxies(k + 1,
                             [tg |-> g.tg,
                              subprojects |-> [r.subprojects EXCEPT ![k] = g.sub]]))

\* The target the build script creates itself, with its source.
CleanTarget ==
    cbuild_add_source(create_target_in("out", "app", "TARGET_EXECUTABLE"), <<"main.c">>)

\* The files of the build: the source, the executable and its object, the
\* compile-commands index, the library of each subproject.
CleanPaths ==
    { <<"main.c">>, CleanTarget.output_file, ObjName(CleanTarget, <<"main.c">>),
      <<"out", "compile_commands.json">> }
      \cup {<<SubprojectDirs[k]>> \o CleanDriver[1].output_file : k \in 1..MaxSubprojects}

\* The build script called cbuild_set_output_dir("out"), created app,
\* added up to MaxSubprojects subprojects and, or not, asked each for its
\* library; the disk holds any of the files earlier builds leave.
InitClean ==
    /\ g_output_dir = cbuild_set_output_dir("out")
    /\ g_subcommands = <<>>
    /\ g_global_cflags = NULL
    /\ g_global_defines = <<>>
    /\ g_generate_compile_commands = FALSE
    /\ g_cc_entries = <<>>
    /\ pc = "alive"
    /\ calls = <<>>
    /\ \E n \in 0..MaxSubprojects : \E proxied \in BOOLEAN :
          \E r \in {AddSubprojects(1, n, [cmds |-> <<>>, subprojects |-> <<>>])} :
             \E g \in {IF proxied
                       THEN GetProxies(1, [tg |-> <<CleanTarget>>, subprojects |-> r.subprojects])
                       ELSE [tg |-> <<CleanTarget>>, subprojects |-> r.subprojects]} :
                /\ g_targets = g.tg
                /\ g_commands = r.cmds
                /\ g_subprojects = g.subprojects
    /\ fs \in [CleanPaths -> {0, 1}]
    /\ clock = 1
    /\ latency = 1
    /\ runs = <<>>

\* The cbuild_run of the process: ./cbuild clean.
CleanRun == runs = <<>> /\ Run(<<"clean">>)

NextClean == CleanRun

\* One clean on every disk.
SpecClean == InitClean /\ [][NextClean]_vars

----------------------------------------------------------------------------
(* Compiler flags and the compile-commands index *)

\* The values the build script passes to cbuild_add_global_cflags and to
\* cbuild_target_add_cflags.
GlobalFlags == {"-O2"}
TargetFlags == {"-Wall", ""}

\* The build script registered math and main, with or without the link
\* edge, gave main an include directory and a define and added a global
\* define; no flags yet, generation disabled.
InitCompile ==
    /\ g_output_dir = "build"
    /\ g_subprojects = <<>>
    /\ g_subcommands = <<>>
    /\ g_global_cflags = NULL
    /\ g_global_defines = <<"NDEBUG">>
    /\ g_generate_compile_commands = FALSE
    /\ g_cc_entries = <<>>
    /\ pc = "alive"
    /\ calls = <<>>
    /\ \E E \in {{<<"link", 2, 1>>}} :
          g_targets = [i \in Targets |->
                          IF i = 2
                          THEN cbuild_add_define(
                                   cbuild_add_include_dir(ScriptTarget(i, E), "include"),
                                   "MAIN=1")
                          ELSE ScriptTarget(i, E)]
    /\ g_commands = <<>>
    /\ fs = [p \in Paths \cup {<<"build", "compile_commands.json">>} |->
                IF p \in SourceFiles THEN 1 ELSE 0]
    /\ clock = 1
    /\ latency = 1
    /\ runs = <<>>

\* cbuild_add_global_cflags(flags)
AddGlobalCflags(flags) ==
    /\ Len(calls) < MaxFlagCalls
    /\ g_global_cflags' = cbuild_add_global_cflags(g_global_cflags, flags)
    /\ calls' = Append(calls, [op |-> "cbuild_add_global_cflags", target |-> 0,
                               flags |-> flags])
    /\ UNCHANGED <<g_targets, g_commands, g_subcommands, g_subprojects, g_output_dir,
                   g_global_defines, g_generate_compile_commands, g_cc_entries,
                   pc, fs, clock, latency, runs>>

\* cbuild_target_add_cflags(target, cflags)
TargetAddCflags(t, cflags) ==
    /\ Len(calls) < MaxFlagCalls
    /\ g_targets' = [g_targets EXCEPT ![t] = cbuild_target_add_cflags(@, cflags)]
    /\ calls' = Append(calls, [op |-> "cbuild_target_add_cflags", target |-> t,
                               flags |-> cflags])
    /\ UNCHANGED <<g_commands, g_subcommands, g_subprojects, g_output_dir,
                   g_global_cflags, g_global_defines, g_generate_compile_commands,
                   g_cc_entries, pc, fs, clock, latency, runs>>

\* cbuild_enable_compile_commands(enabled)
EnableCompileCommands(enabled) ==
    /\ g_generate_compile_commands # enabled
    /\ g_generate_compile_commands' = cbuild_enable_compile_commands(enabled)
    /\ UNCHANGED <<g_targets, g_commands, g_subcommands, g_subprojects, g_output_dir,
                   g_global_cflags, g_global_defines, g_cc_entries,
                   pc, calls, fs, clock, latency, runs>>

\* A cbuild_run of the process: the default build or clean.
CompileRun ==
    /\ Len(runs) < MaxRuns
    /\ \E argv \in {<<>>, <<"--manifest">>} :
          RunFailing(argv, [c \in DOMAIN g_commands |-> {}], {NoFail, <<"COMPILE", 2, 1>>})

NextCompile ==
    \/ \E flags \in GlobalFlags : AddGlobalCflags(flags)
    \/ \E t \in Targets : \E cflags \in TargetFlags : TargetAddCflags(t, cflags)
    \/ \E enabled \in BOOLEAN : EnableCompileCommands(enabled)
    \/ CompileRun

\* Flag calls, the generation switch and calls of cbuild_run, in any order.
SpecCompile == InitCompile /\ [][NextCompile]_vars

----------------------------------------------------------------------------
(* Self-rebuild of the build executable *)

\* The running executable, the name it is moved to, and the sources
\* CBUILD_SELF_REBUILD("build.c", "cbuild.h") declares.
ExePath == <<"cbuild">>
OldPath == <<"cbuild.old">>
SelfSources == << <<"build.c">>, <<"cbuild.h">> >>
SelfPaths == {ExePath, OldPath} \cup {SelfSources[i] : i \in DOMAIN SelfSources}

\* Mutation of cbuild__needs_rebuild: >= where the code has >.
cbuild__needs_rebuild_ties_stale(exe_path, sources, files) ==
    IF files[exe_path] = 0 THEN TRUE
    ELSE \E i \in DOMAIN sources :
            files[sources[i]] # 0 /\ files[sources[i]] >= files[exe_path]

\* cbuild__needs_rebuild: the executable cannot be stat'ed, or a source that
\* can be is strictly newer.
cbuild__needs_rebuild(exe_path, sources, files) ==
    IF files[exe_path] = 0 THEN TRUE
    ELSE \E i \in DOMAIN sources :
            files[sources[i]] # 0 /\ files[sources[i]] > files[exe_path]

\* Mutation of self_rebuild_compiled: a failed compile is not fatal, the
\* call returns.
self_rebuild_compiled_returning(c, argv, rc, exec_ok) ==
    IF rc # 0 THEN [c EXCEPT !.outcome = "returned"]
    ELSE [c EXCEPT !.steps = Append(@, <<"execv", ExePath, argv>>),
                   !.outcome = IF exec_ok THEN "exec" ELSE "exited"]

\* What cbuild_self_rebuild_if_needed does once system(cmd) returned rc:
\* exit(1) on a failure, else execv(exe_path, argv), and exit(1) if execv
\* returns.
self_rebuild_compiled(c, argv, rc, exec_ok) ==
    IF rc # 0 THEN [c EXCEPT !.outcome = "exited"]
    ELSE [c EXCEPT !.steps = Append(@, <<"execv", ExePath, argv>>),
                   !.outcome = IF exec_ok THEN "exec" ELSE "exited"]

\* cbuild_self_rebuild_if_needed(argc, argv, sources, sources_count) on the
\* files `files` at time now: [fs, clock, steps, outcome].  ok says whether
\* the compiler succeeds (it fails without build.c), exec_ok whether execv
\* does; a subprocess takes lat seconds.
cbuild_self_rebuild_if_needed(argv, sources, files, now, lat, ok, exec_ok) ==
    Then([ fs |-> [files EXCEPT ![OldPath] = 0], clock |-> now,
           steps |-> << <<"remove", OldPath>> >>, outcome |-> "returned" ],
         LAMBDA c0 :
           IF ~cbuild__needs_rebuild(ExePath, sources, c0.fs) THEN c0
           ELSE Then([c0 EXCEPT !.fs = [@ EXCEPT ![OldPath] = c0.fs[ExePath], ![ExePath] = 0],
                                !.steps = Append(@, <<"rename", ExePath, OldPath>>)],
                     LAMBDA c1 :
                       LET rc == IF ok /\ c1.fs[<<"build.c">>] # 0 THEN 0 ELSE 1
                       IN self_rebuild_compiled(
                              [c1 EXCEPT !.fs = IF rc = 0 THEN [@ EXCEPT ![ExePath] = now] ELSE @,
                                         !.clock = now + lat,
                                         !.steps = Append(@, <<"system", rc>>)],
                              argv, rc, exec_ok)))

\* The command lines the build executable is started with.
SelfArgs == {<<>>, <<"clean">>}

\* The build executable is about to start: it exists, a cbuild.old may
\* linger, its sources carry any stamp (0: missing); the graph is the one
\* main registers once cbuild_self_rebuild_if_needed returned.
InitSelf ==
    /\ g_output_dir = "build"
    /\ g_subprojects = <<>>
    /\ g_subcommands = <<>>
    /\ g_global_cflags = NULL
    /\ g_global_defines = <<>>
    /\ g_generate_compile_commands = FALSE
    /\ g_cc_entries = <<>>
    /\ pc = "alive"
    /\ calls = <<>>
    /\ g_targets = [i \in Targets |-> ScriptTarget(i, {})]
    /\ g_commands = <<>>
    /\ \E exe \in 1..MaxTime : \E old \in {0, 1} :
          \E stamps \in [DOMAIN SelfSources -> 0..(MaxTime + 1)] :
             fs = [p \in Paths \cup SelfPaths |->
                      IF p \in SourceFiles THEN 1
                      ELSE IF p = ExePath THEN exe
                      ELSE IF p = OldPath THEN old
                      ELSE IF \E i \in DOMAIN SelfSources : SelfSources[i] = p
                           THEN stamps[CHOOSE i \in DOMAIN SelfSources : SelfSources[i] = p]
                      ELSE 0]
    /\ clock = MaxTime
    /\ latency \in {0, 1}
    /\ runs = <<>>

\* main calls cbuild_self_rebuild_if_needed: in the first image with any
\* command line, in an image started by execv with the arguments passed.
SelfRebuild ==
    /\ pc = "alive"
    /\ Len(calls) < MaxImages
    /\ \E argv \in IF calls = <<>> THEN SelfArgs
                   ELSE {calls[Len(calls)].steps[Len(calls[Len(calls)].steps)][3]} :
          \E ok \in BOOLEAN : \E exec_ok \in BOOLEAN :
             \E c \in {cbuild_self_rebuild_if_needed(argv, SelfSources, fs, clock,
                                                     latency, ok, exec_ok)} :
                /\ fs' = c.fs
                /\ clock' = c.clock
                /\ pc' = CASE c.outcome = "exec" -> "alive"
                           [] c.outcome = "returned" -> "returned"
                           [] OTHER -> "exited"
                /\ calls' = Append(calls, [argv |-> argv, fs0 |-> fs, clock0 |-> clock,
                                           steps |-> c.steps, outcome |-> c.outcome,
                                           fs1 |-> c.fs])
    /\ UNCHANGED <<g_targets, g_commands, g_subcommands, g_subprojects, g_output_dir,
                   g_global_cflags, g_global_defines, g_generate_compile_commands,
                   g_cc_entries, latency, runs>>

\* main goes on after cbuild_self_rebuild_if_needed returned: the
\* registrations, then cbuild_run with the arguments of the process.
SelfRun ==
    /\ pc = "returned"
    /\ runs = <<>>
    /\ Run(calls[Len(calls)].argv)

NextSelf == SelfRebuild \/ SelfRun

\* The build executable from its start to the end of its cbuild_run.
SpecSelf == InitSelf /\ [][NextSelf]_vars

----------------------------------------------------------------------------
(* The mutator API called with null pointers *)

\* The mutators, and the value each is called with when its second
\* argument is not null.
Mutators ==
    { "cbuild_add_source", "cbuild_add_include_dir", "cbuild_add_library_dir",
      "cbuild_add_link_library", "cbuild_add_define", "cbuild_target_add_command",
      "cbuild_target_add_post_command", "cbuild_target_add_cflags",
      "cbuild_target_link_library" }

\* The mutators that test neither pointer: strchr(arg, '*') reads the
\* second argument, then target->... is read and written.
Unguarded ==
    { "cbuild_add_source", "cbuild_add_include_dir", "cbuild_add_library_dir",
      "cbuild_add_link_library" }

\* The call returns at once: the guards of cbuild_add_define, of
\* cbuild_target_add_command, cbuild_target_add_post_command and
\* cbuild_target_add_cflags (either pointer null), and of
\* cbuild_target_link_library (dependency null).
Ignored(op, t, null_arg) ==
    \/ op \in {"cbuild_add_define", "cbuild_target_add_command",
               "cbuild_target_add_post_command", "cbuild_target_add_cflags"}
          /\ (t = 0 \/ null_arg)
    \/ op = "cbuild_target_link_library" /\ null_arg

\* The call reads through a null pointer.
NullDereferenced(op, t, null_arg) ==
    \/ op \in Unguarded /\ (t = 0 \/ null_arg)
    \/ op = "cbuild_target_link_library" /\ t = 0 /\ ~null_arg

\* The target record after the call op(target, value).
Mutated(op, t) ==
    CASE op = "cbuild_add_source" -> cbuild_add_source(t, <<"extra.c">>)
      [] op = "cbuild_add_include_dir" -> cbuild_add_include_dir(t, "include")
      [] op = "cbuild_add_library_dir" -> cbuild_add_library_dir(t, "libs")
      [] op = "cbuild_add_link_library" -> cbuild_add_link_library(t, "m")
      [] op = "cbuild_add_define" -> cbuild_add_define(t, "DEBUG")
      [] op = "cbuild_target_add_command" -> cbuild_target_add_command(t, 1)
      [] op = "cbuild_target_add_post_command" -> cbuild_target_add_post_command(t, 1)
      [] op = "cbuild_target_add_cflags" -> cbuild_target_add_cflags(t, "-Wall")
      [] op = "cbuild_target_link_library" -> cbuild_target_link_library(t, 1)

\* The build script created math, main and the commands; no edge yet.
InitApi ==
    /\ g_output_dir = "build"
    /\ g_subprojects = <<>>
    /\ g_subcommands = <<>>
    /\ g_global_cflags = NULL
    /\ g_global_defines = <<>>
    /\ g_generate_compile_commands = FALSE
    /\ g_cc_entries = <<>>
    /\ pc = "alive"
    /\ calls = <<>>
    /\ g_targets = [i \in Targets |-> ScriptTarget(i, {})]
    /\ g_commands = [c \in Commands |-> ScriptCommand(c, {})]
    /\ fs = [p \in Paths |-> IF p \in SourceFiles THEN 1 ELSE 0]
    /\ clock = 1
    /\ latency = 1
    /\ runs = <<>>

\* One mutator call: target t (0: a null pointer), second argument null
\* or not.  A read through a null pointer is undefined: the process dies,
\* or goes on with the graph as it was.
ApiCall(op, t, null_arg) ==
    /\ pc = "alive"
    /\ Len(calls) < MaxApiCalls
    /\ \E died \in IF NullDereferenced(op, t, null_arg) THEN BOOLEAN ELSE {FALSE} :
          /\ pc' = IF died THEN "crashed" ELSE "alive"
          /\ g_targets' = IF Ignored(op, t, null_arg) \/ NullDereferenced(op, t, null_arg)
                          THEN g_targets
                          ELSE [g_targets EXCEPT ![t] = Mutated(op, @)]
          /\ calls' = Append(calls, [op |-> op, target |-> t, null_arg |-> null_arg,
                                     died |-> died, before |-> g_targets,
                                     after |-> g_targets'])
    /\ UNCHANGED <<g_commands, g_subcommands, g_subprojects, g_output_dir,
                   g_global_cflags, g_global_defines, g_generate_compile_commands,
                   g_cc_entries, fs, clock, latency, runs>>

NextApi ==
    \E op \in Mutators : \E t \in {0} \cup Targets : \E null_arg \in BOOLEAN :
        ApiCall(op, t, null_arg)

\* A build script that makes mutator calls, some with null pointers.
SpecApi == InitApi /\ [][NextApi]_vars

----------------------------------------------------------------------------
(* The freshness decisions on any filesystem *)

\* The target the decisions are taken for: main, which links math; its
\* source, object and dependency file.
DecideTarget == Deref([i \in Targets |-> ScriptTarget(i, {<<"link", 2, 1>>})], 2)
DecideSource == DecideTarget.sources[1]
DecideObject == ObjName(DecideTarget, DecideSource)
DecideDepFile == DepName(DecideTarget, DecideSource)

\* The files the decisions can look at, and another one.
DecidePaths ==
    { DecideSource, DecideObject, DecideDepFile, DecideTarget.output_file,
      DecideTarget.dependencies[1].output_file, <<"math.c">> }

\* Any filesystem: each file missing (0) or stamped up to MaxTime.
InitDecide ==
    /\ g_output_dir = "build"
    /\ g_subprojects = <<>>
    /\ g_subcommands = <<>>
    /\ g_global_cflags = NULL
    /\ g_global_defines = <<>>
    /\ g_generate_compile_commands = FALSE
    /\ g_cc_entries = <<>>
    /\ pc = "alive"
    /\ calls = <<>>
    /\ g_targets = [i \in Targets |-> ScriptTarget(i, {<<"link", 2, 1>>})]
    /\ g_commands = <<>>
    /\ fs \in [DecidePaths -> 0..MaxTime]
    /\ clock = MaxTime
    /\ latency = 1
    /\ runs = <<>>

\* need_recompile(src, objname, depname) is called.
DecideRecompile ==
    /\ \A k \in DOMAIN calls : calls[k].fn # "need_recompile"
    /\ calls' = Append(calls, [fn |-> "need_recompile",
                               result |-> need_recompile(DecideSource, DecideObject,
                                                         DecideDepFile, fs)])
    /\ UNCHANGED <<g_targets, g_commands, g_subcommands, g_subprojects, g_output_dir,
                   g_global_cflags, g_global_defines, g_generate_compile_commands,
                   g_cc_entries, pc, fs, clock, latency, runs>>

\* The needs_link decision of build_target is taken.
DecideLink ==
    /\ \A k \in DOMAIN calls : calls[k].fn # "needs_link"
    /\ calls' = Append(calls, [fn |-> "needs_link",
                               result |-> needs_link(DecideTarget, fs)])
    /\ UNCHANGED <<g_targets, g_commands, g_subcommands, g_subprojects, g_output_dir,
                   g_global_cflags, g_global_defines, g_generate_compile_commands,
                   g_cc_entries, pc, fs, clock, latency, runs>>

NextDecide == DecideRecompile \/ DecideLink

\* The two decisions, on every filesystem.
SpecDecide == InitDecide /\ [][NextDecide]_vars

----------------------------------------------------------------------------
(* Manifests of any child: what the subproject's executable may print *)

\* Lines a child can print in manifest mode: a line of the wire format, a
\* line whose kind is none of the three, a line of two tokens.
ValidLine == <<"static_lib", " ", "math", " ", "build", "/", "libmath.a", "\n">>
UnknownKindLine == <<"object", " ", "math", " ", "build", "/", "math.o", "\n">>
ShortLine == <<"static_lib", " ", "math", "\n">>
ManifestLines == {ValidLine, UnknownKindLine, ShortLine}

\* What the child prints: nothing, one line, two lines.
ManifestOutputs ==
    {<<>>} \cup ManifestLines \cup {a \o b : a \in ManifestLines, b \in ManifestLines}

\* The target the build script creates itself.
ManifestTarget == create_target_in("build", "app", "TARGET_EXECUTABLE")

\* The names the build script asks the subproject for.
ManifestNames == {"math", "nope"}

\* The build script created app and added the subproject lib; it asked for
\* no target yet.
InitManifest ==
    /\ g_output_dir = cbuild_set_output_dir("build")
    /\ g_subcommands = <<>>
    /\ g_global_cflags = NULL
    /\ g_global_defines = <<>>
    /\ g_generate_compile_commands = FALSE
    /\ g_cc_entries = <<>>
    /\ pc = "alive"
    /\ calls = <<>>
    /\ g_targets = <<ManifestTarget>>
    /\ \E r \in {cbuild_add_subproject(<<>>, <<>>, "lib", "lib", CleanDriver)} :
          /\ g_commands = r.cmds
          /\ g_subprojects = r.subprojects
    /\ fs = [p \in {ManifestTarget.output_file} |-> 0]
    /\ clock = 1
    /\ latency = 1
    /\ runs = <<>>

\* The calls of cbuild_subproject_get_target among the calls made.
GetCalls == {k \in DOMAIN calls : calls[k].op = "cbuild_subproject_get_target"}

\* cbuild_subproject_get_target(lib, name): the child, if it is run, exits
\* with rc and prints output (a child that fails prints nothing or a line).
GetTargetOf(name) ==
    /\ Cardinality(GetCalls) < MaxCalls
    /\ \E rc \in IF g_subprojects[1].manifest_loaded THEN {0} ELSE {0, 1} :
       \E output \in IF g_subprojects[1].manifest_loaded THEN {<<>>}
                     ELSE IF rc = 0 THEN ManifestOutputs ELSE {<<>>, ValidLine} :
          \E r \in {cbuild_subproject_get_target(g_targets, g_subprojects[1], name, rc, output)} :
             /\ g_targets' = r.tg
             /\ g_subprojects' = [g_subprojects EXCEPT ![1] = r.sub]
             /\ calls' = Append(calls, [op |-> "cbuild_subproject_get_target",
                                        name |-> name, rc |-> rc, output |-> output,
                                        ran |-> ~g_subprojects[1].manifest_loaded,
                                        ret |-> r.ret,
                                        before |-> g_targets, after |-> r.tg,
                                        sub_before |-> g_subprojects[1],
                                        sub_after |-> r.sub])
    /\ UNCHANGED <<g_commands, g_subcommands, g_output_dir, pc,
                   g_global_cflags, g_global_defines, g_generate_compile_commands,
                   g_cc_entries, fs, clock, latency, runs>>

\* cbuild_target_link_library(app, dep), dep what the call of
\* cbuild_subproject_get_target just made returned (0: a null pointer).
LinkResult ==
    /\ calls # <<>>
    /\ calls[Len(calls)].op = "cbuild_subproject_get_target"
    /\ \E dep \in {calls[Len(calls)].ret} :
          /\ g_targets' = IF Ignored("cbuild_target_link_library", 1, dep = 0)
                          THEN g_targets
                          ELSE [g_targets EXCEPT ![1] = cbuild_target_link_library(@, dep)]
          /\ calls' = Append(calls, [op |-> "cbuild_target_link_library", dep |-> dep,
                                     before |-> g_targets, after |-> g_targets'])
    /\ UNCHANGED <<g_commands, g_subcommands, g_subprojects, g_output_dir, pc,
                   g_global_cflags, g_global_defines, g_generate_compile_commands,
                   g_cc_entries, fs, clock, latency, runs>>

NextManifest == (\E name \in ManifestNames : GetTargetOf(name)) \/ LinkResult

\* A build script that asks a subproject for targets and links what it
\* gets, the child printing any of the manifests.
SpecManifest == InitManifest /\ [][NextManifest]_vars

----------------------------------------------------------------------------
(* The toolchain: cbuild_set_compiler and the form of the command lines *)

\* The compiler names the build script may select, and their characters.
CompilerNames == {"gcc", "cc", "clang", "cl", "clang-cl", "cl.exe", "tcc", "icl"}
Chars(name) ==
    CASE name = "gcc" -> <<"g", "c", "c">>
      [] name = "cc" -> <<"c", "c">>
      [] name = "clang" -> <<"c", "l", "a", "n", "g">>
      [] name = "cl" -> <<"c", "l">>
      [] name = "clang-cl" -> <<"c", "l", "a", "n", "g", "-", "c", "l">>
      [] name = "cl.exe" -> <<"c", "l", ".", "e", "x", "e">>
      [] name = "tcc" -> <<"t", "c", "c">>
      [] name = "icl" -> <<"i", "c", "l">>

\* strstr(haystack, needle) != NULL
strstr(haystack, needle) ==
    \E i \in 1..(Len(Chars(haystack)) - Len(Chars(needle)) + 1) :
        SubSeq(Chars(haystack), i, i + Len(Chars(needle)) - 1) = Chars(needle)

\* The platforms cbuild.h is compiled for: the macro that is defined.
Platforms == {"_WIN32", "__APPLE__", "__linux__"}

\* g_cc, g_ar, g_ld before any call.
NoTools == [g_cc |-> NULL, g_ar |-> NULL, g_ld |-> NULL]

\* cbuild_set_compiler(compiler_exe): sets g_cc; g_ar becomes "lib" for a
\* name with "cl" and without "clang", "ar" for a name without "cl", and
\* stays for the others.
cbuild_set_compiler(tools, compiler_exe) ==
    [tools EXCEPT !.g_cc = compiler_exe,
                  !.g_ar = IF strstr(compiler_exe, "cl") /\ ~strstr(compiler_exe, "clang")
                           THEN "lib"
                           ELSE IF ~strstr(compiler_exe, "cl") THEN "ar"
                           ELSE @]

\* cbuild_init, for the tools: the defaults of those still null.
cbuild_init_tools(tools, platform) ==
    LET cc == IF tools.g_cc = NULL THEN "cc" ELSE tools.g_cc
    IN [ g_cc |-> cc,
         g_ar |-> IF tools.g_ar = NULL THEN "ar" ELSE tools.g_ar,
         g_ld |-> IF tools.g_ld # NULL THEN tools.g_ld
                  ELSE IF platform = "_WIN32" THEN "ld" ELSE cc ]

\* A command line is the sequence of its append_format calls, each the
\* format and its arguments.  The line compile_source builds:
compile_source_line(platform, tools, t, obj_file, src_file, global_cflags, global_defines) ==
    << <<"\"%s\" ", tools.g_cc>> >>
        \o (IF platform = "_WIN32"
            THEN << <<"/c /nologo /Fo\"%s\" ", PathString(obj_file)>>, <<"/showIncludes ">> >>
            ELSE << <<"-c -o \"%s\" ", PathString(obj_file)>> >>)
        \o (IF t.cflags # NULL /\ t.cflags # "" THEN << <<"%s ", t.cflags>> >>
            ELSE IF global_cflags # NULL THEN << <<"%s ", global_cflags>> >>
            ELSE <<>>)
        \o [i \in DOMAIN t.include_dirs |->
               <<IF platform = "_WIN32" THEN "/I \"%s\" " ELSE "-I\"%s\" ", t.include_dirs[i]>>]
        \o [i \in DOMAIN global_defines |->
               <<IF platform = "_WIN32" THEN "/D%s " ELSE "-D%s ", global_defines[i]>>]
        \o [i \in DOMAIN t.defines |->
               <<IF platform = "_WIN32" THEN "/D%s " ELSE "-D%s ", t.defines[i]>>]
        \o << <<"\"%s\"", PathString(src_file)>> >>

\* The archive or link line build_target builds for target t of tg.
build_target_line(platform, tools, tg, t) ==
    LET objs == [i \in DOMAIN tg[t].sources |->
                    <<" %s", PathString(ObjName(tg[t], tg[t].sources[i]))>>]
        libs == SelectSeq(tg[t].dependencies,
                          LAMBDA d : tg[d].type \in {"TARGET_STATIC_LIB", "TARGET_SHARED_LIB"})
    IN IF tg[t].type = "TARGET_STATIC_LIB"
       THEN << <<IF platform = "_WIN32" THEN "%s /OUT:%s" ELSE "%s rcs %s",
                 tools.g_ar, PathString(tg[t].output_file)>> >> \o objs
       ELSE << <<"%s -o %s", tools.g_ld, PathString(tg[t].output_file)>> >> \o objs
              \o [i \in DOMAIN tg[t].lib_dirs |->
                     <<IF platform = "_WIN32" THEN " /LIBPATH:\"%s\"" ELSE " -L\"%s\"",
                       tg[t].lib_dirs[i]>>]
              \o [i \in DOMAIN tg[t].link_libs |->
                     <<CASE platform = "_WIN32" -> " %s.lib"
                         [] platform = "__APPLE__" -> " -l%s.dylib"
                         [] OTHER -> " -l%s",
                       tg[t].link_libs[i]>>]
              \o [i \in DOMAIN libs |-> <<" %s", PathString(tg[libs[i]].output_file)>>]
              \o (IF tg[t].type = "TARGET_SHARED_LIB"
                  THEN << <<IF platform = "_WIN32" THEN " /DLL" ELSE " -shared">> >>
                  ELSE <<>>)

\* The targets of the build script: a static library, a shared library,
\* and an executable that links the first and the system library m from
\* the directory libs.
ToolTargets ==
    << cbuild_add_source(create_target_in("build", "math", "TARGET_STATIC_LIB"),
                         <<"src", "math.c">>),
       cbuild_add_source(create_target_in("build", "plug", "TARGET_SHARED_LIB"),
                         <<"src", "plug.c">>),
       cbuild_target_link_library(
           cbuild_add_link_library(
               cbuild_add_library_dir(
                   cbuild_add_include_dir(
                       cbuild_add_define(
                           cbuild_add_source(create_target_in("build", "main", "TARGET_EXECUTABLE"),
                                             <<"src", "main.c">>),
                           "MAIN=1"),
                       "include"),
                   "libs"),
               "m"),
           1) >>

InitTools ==
    /\ g_output_dir = cbuild_set_output_dir("build")
    /\ g_subprojects = <<>>
    /\ g_subcommands = <<>>
    /\ g_global_cflags = NULL
    /\ g_global_defines = <<>>
    /\ g_generate_compile_commands = FALSE
    /\ g_cc_entries = <<>>
    /\ pc = "alive"
    /\ calls = <<>>
    /\ g_targets = ToolTargets
    /\ g_commands = <<>>
    /\ fs = [p \in {ToolTargets[t].output_file : t \in DOMAIN ToolTargets} |-> 0]
    /\ clock = 1
    /\ latency = 1
    /\ runs = <<>>

\* g_cc, g_ar and g_ld as the calls made left them.
CurrentTools == IF calls = <<>> THEN NoTools ELSE calls[Len(calls)].tools

\* cbuild_set_compiler(compiler_exe)
SetCompiler(compiler_exe) ==
    /\ pc = "alive"
    /\ Len(calls) < MaxApiCalls
    /\ calls' = Append(calls, [op |-> "cbuild_set_compiler", compiler_exe |-> compiler_exe,
                               tools |-> cbuild_set_compiler(CurrentTools, compiler_exe)])
    /\ UNCHANGED <<g_targets, g_commands, g_subcommands, g_subprojects, g_output_dir, pc,
                   g_global_cflags, g_global_defines, g_generate_compile_commands,
                   g_cc_entries, fs, clock, latency, runs>>

\* cbuild_run, as far as the command lines go: cbuild_init, then the
\* compile line of each target's source and its archive or link line, in
\* the build of cbuild.h for one of the platforms.
SynthesizeLines ==
    /\ pc = "alive"
    /\ \E platform \in Platforms :
          \E tools \in {cbuild_init_tools(CurrentTools, platform)} :
             calls' = Append(calls,
                 [op |-> "cbuild_run", platform |-> platform, tools |-> tools,
                  compile |-> [t \in DOMAIN g_targets |->
                                  compile_source_line(platform, tools, g_targets[t],
                                      ObjName(g_targets[t], g_targets[t].sources[1]),
                                      g_targets[t].sources[1],
                                      g_global_cflags, g_global_defines)],
                  link |-> [t \in DOMAIN g_targets |->
                               build_target_line(platform, tools, g_targets, t)]])
    /\ pc' = "returned"
    /\ UNCHANGED <<g_targets, g_commands, g_subcommands, g_subprojects, g_output_dir,
                   g_global_cflags, g_global_defines, g_generate_compile_commands,
                   g_cc_entries, fs, clock, latency, runs>>

NextTools == (\E name \in CompilerNames : SetCompiler(name)) \/ SynthesizeLines

\* A build script that selects compilers and then builds.
SpecTools == InitTools /\ [][NextTools]_vars

----------------------------------------------------------------------------
(* Command chains: direct calls and runs, several in one process *)

\* The commands of the build script, in creation order.
ChainNames == <<"gen", "fmt", "lint">>

\* The sequences without repetition of elements of S.
RECURSIVE Arrangements(_)
Arrangements(S) ==
    {<<>>} \cup UNION {{<<x>> \o a : a \in Arrangements(S \ {x})} : x \in S}

\* The dependency lists the script may give command c: commands created
\* after it, in any registration order (the graph has no cycle).
ChainDependencies(c) == Arrangements({d \in DOMAIN ChainNames : d > c})

\* The targets: math with the pre-command gen, main that links math and
\* has the post-command fmt.
ChainTargets ==
    << cbuild_target_add_command(ScriptTarget(1, {}), 1),
       cbuild_target_add_post_command(ScriptTarget(2, {<<"link", 2, 1>>}), 2) >>

InitChain ==
    /\ g_output_dir = "build"
    /\ g_subprojects = <<>>
    /\ g_subcommands = <<>>
    /\ g_global_cflags = NULL
    /\ g_global_defines = <<>>
    /\ g_generate_compile_commands = FALSE
    /\ g_cc_entries = <<>>
    /\ pc = "alive"
    /\ calls = <<>>
    /\ g_targets = ChainTargets
    /\ \E deps \in [DOMAIN ChainNames -> Arrangements(DOMAIN ChainNames)] :
          /\ \A c \in DOMAIN ChainNames : deps[c] \in ChainDependencies(c)
          /\ g_commands = [c \in DOMAIN ChainNames |->
                              Calls(cbuild_command_add_dependency,
                                    cbuild_command(ChainNames[c]), deps[c])]
    /\ fs = [p \in Paths |-> IF p \in SourceFiles THEN 1 ELSE 0]
    /\ clock = 1
    /\ latency = 1
    /\ runs = <<>>

\* The shell lines of the commands: any one of them can fail.
ChainFailures == {NoFail} \cup {<<"COMMAND", c>> : c \in DOMAIN g_commands}

\* The build script calls cbuild_run_command(c).
CommandCall(c) ==
    /\ Len(calls) < MaxCalls
    /\ \E fail \in ChainFailures :
          \E r \in {cbuild_run_command(c, StartState(g_targets, g_commands, fs, clock, latency),
                                        fail, 1)} :
             /\ ~r.st.crashed
             /\ g_commands' = r.st.cmds
             /\ calls' = Append(calls, [op |-> "cbuild_run_command", cmd |-> c, rc |-> r.rc,
                                        log |-> r.st.log, cmds0 |-> g_commands,
                                        cmds1 |-> r.st.cmds])
    /\ UNCHANGED <<g_targets, g_subcommands, g_subprojects, g_output_dir, pc,
                   g_global_cflags, g_global_defines, g_generate_compile_commands,
                   g_cc_entries, fs, clock, latency, runs>>

\* The build script calls cbuild_run(1, argv).
ChainRun ==
    /\ Len(runs) < MaxRuns
    /\ RunFailing(<<>>, [c \in DOMAIN g_commands |-> {}], ChainFailures)

NextChain == (\E c \in DOMAIN g_commands : CommandCall(c)) \/ ChainRun

\* Direct command calls and default builds, in any order, in one process.
SpecChain == InitChain /\ [][NextChain]_vars

----------------------------------------------------------------------------
(* Shared dependencies: four targets, any link edges *)

\* The targets of the build script, in registration order.
DiamondDefs ==
    << [name |-> "base", type |-> "TARGET_STATIC_LIB", sources |-> << <<"base.c">> >>],
       [name |-> "left", type |-> "TARGET_STATIC_LIB", sources |-> << <<"left.c">> >>],
       [name |-> "right", type |-> "TARGET_STATIC_LIB", sources |-> << <<"right.c">> >>],
       [name |-> "top", type |-> "TARGET_EXECUTABLE", sources |-> << <<"top.c">> >>] >>

\* The cbuild_target_link_library calls the script may make: <<t, u>> makes
\* u a dependency of t.
DiamondEdges == {<<t, u>> : t \in DOMAIN DiamondDefs, u \in DOMAIN DiamondDefs} \
                    {<<t, t>> : t \in DOMAIN DiamondDefs}

\* Target i with the link edges E.
DiamondTarget(i, E) ==
    Calls(cbuild_target_link_library,
          Calls(cbuild_add_source,
                create_target_in("build", DiamondDefs[i].name, DiamondDefs[i].type),
                DiamondDefs[i].sources),
          SelectSeq([u \in DOMAIN DiamondDefs |-> u], LAMBDA u : <<i, u>> \in E))

\* The files of the build: sources, objects, outputs.
DiamondPaths ==
    UNION {{DiamondDefs[i].sources[1], DiamondTarget(i, {}).output_file,
            ObjName(DiamondTarget(i, {}), DiamondDefs[i].sources[1])} : i \in DOMAIN DiamondDefs}

\* The script registered the four targets and at most MaxEdges link edges;
\* the sources exist, nothing is built.
InitDiamond ==
    /\ g_output_dir = "build"
    /\ g_subprojects = <<>>
    /\ g_subcommands = <<>>
    /\ g_global_cflags = NULL
    /\ g_global_defines = <<>>
    /\ g_generate_compile_commands = FALSE
    /\ g_cc_entries = <<>>
    /\ pc = "alive"
    /\ calls = <<>>
    /\ \E E \in SubsetsUpTo(DiamondEdges, MaxEdges) :
          g_targets = [i \in DOMAIN DiamondDefs |-> DiamondTarget(i, E)]
    /\ g_commands = <<>>
    /\ fs = [p \in DiamondPaths |->
                IF \E i \in DOMAIN DiamondDefs : p = DiamondDefs[i].sources[1] THEN 1 ELSE 0]
    /\ clock = 1
    /\ latency = 1
    /\ runs = <<>>

\* The cbuild_run of the process: the default build, any one step failing.
DiamondRun == runs = <<>> /\ Run(<<>>)

NextDiamond == DiamondRun

\* One default build on every graph of the four targets.
SpecDiamond == InitDiamond /\ [][NextDiamond]_vars

----------------------------------------------------------------------------
(* The compile-commands index file and the verbs *)

\* <g_output_dir>/compile_commands.json
IndexPath == <<"build", "compile_commands.json">>

\* The build script registered math, main that links it, and the
\* subcommands test and hello, and enabled generation or not; an index
\* file of an earlier build is on disk or not.
InitIndex ==
    /\ g_output_dir = "build"
    /\ g_subprojects = <<>>
    /\ g_subcommands = Calls(cbuild_register_subcommand, <<>>, SubSeq(SubcommandDefs, 1, 2))
    /\ g_global_cflags = NULL
    /\ g_global_defines = <<>>
    /\ g_generate_compile_commands \in {cbuild_enable_compile_commands(e) : e \in BOOLEAN}
    /\ g_cc_entries = <<>>
    /\ pc = "alive"
    /\ calls = <<>>
    /\ g_targets = [i \in Targets |-> ScriptTarget(i, {<<"link", 2, 1>>})]
    /\ g_commands = <<>>
    /\ \E old \in {0, 1} :
          fs = [p \in Paths \cup {IndexPath} |->
                   IF p \in SourceFiles THEN 1 ELSE IF p = IndexPath THEN old ELSE 0]
    /\ clock = 2
    /\ latency = 1
    /\ runs = <<>>

\* The command lines: the default build and the verbs.
IndexArgs == {<<>>, <<"clean">>, <<"--manifest">>, <<"test">>, <<"hello">>}

\* A cbuild_run of the process; the compile of main, the archive of math
\* or the shell line of test may fail.
IndexRun ==
    /\ Len(runs) < MaxRuns
    /\ \E argv \in IndexArgs :
          RunFailing(argv, [c \in DOMAIN g_commands |-> {}],
                     {NoFail, <<"COMPILE", 2, 1>>, <<"LINK", 1>>, <<"SUBCMD", 1>>})

NextIndex == IndexRun

\* Runs of cbuild_run with each command line, one after the other.
SpecIndex == InitIndex /\ [][NextIndex]_vars

----------------------------------------------------------------------------
(* Incremental builds: two runs and the filesystem between them *)

\* The link_library calls of the incremental-build scripts: main links math.
FreshEdges == {<<"link", 2, 1>>}

\* The build script registers the two targets, with or without the link
\* edge, and no command edge; a subprocess takes under a second or a second.
InitFresh ==
    /\ g_output_dir = "build"
    /\ g_subprojects = <<>>
    /\ g_subcommands = <<>>
    /\ g_global_cflags = NULL
    /\ g_global_defines = <<>>
    /\ g_generate_compile_commands = FALSE
    /\ g_cc_entries = <<>>
    /\ pc = "alive"
    /\ calls = <<>>
    /\ \E E \in SUBSET FreshEdges :
          /\ g_targets = [i \in Targets |-> ScriptTarget(i, E)]
          /\ g_commands = [c \in Commands |-> ScriptCommand(c, E)]
    /\ fs = [p \in Paths |-> IF p \in SourceFiles THEN 1 ELSE 0]
    /\ clock = 1
    /\ latency \in {0, 1}
    /\ runs = <<>>

\* The environment stamps source s with mtime m (an edit, touch -d, a
\* checkout): m can be later than the clock.
Touch(s, m) ==
    /\ Len(runs) < 2
    /\ fs[s] # m
    /\ fs' = [fs EXCEPT ![s] = m]
    /\ UNCHANGED <<g_targets, g_commands, settings, g_cc_entries, clock, latency, runs>>

\* A second passes.
Tick ==
    /\ Len(runs) < 2
    /\ clock < MaxTime
    /\ clock' = clock + 1
    /\ UNCHANGED <<g_targets, g_commands, settings, g_cc_entries, fs, latency, runs>>

\* The cbuild_run that follows the first one.
SecondRun == Len(runs) = 1 /\ Run(<<>>)

NextFresh ==
    \/ \E s \in SourceFiles, m \in 1..(MaxTime + 1) : Touch(s, m)
    \/ Tick
    \/ FirstRun
    \/ SecondRun

SpecFresh == InitFresh /\ [][NextFresh]_vars

----------------------------------------------------------------------------
(* Reading the graph and the run records *)

target_deps(t) == {g_targets[t].dependencies[i] : i \in DOMAIN g_targets[t].dependencies}
PreCommands(t) == {g_targets[t].commands[i] : i \in DOMAIN g_targets[t].commands}
PostCommands(t) == {g_targets[t].post_commands[i] : i \in DOMAIN g_targets[t].post_commands}
command_deps(c) == {g_commands[c].dependencies[i] : i \in DOMAIN g_commands[c].dependencies}

\* The targets T depends on, over one or more link_library edges.
TransitiveTargetDeps(t) ==
    LET R[k \in 0..Len(g_targets)] ==
            IF k = 0 THEN target_deps(t)
            ELSE R[k - 1] \cup UNION {target_deps(u) : u \in R[k - 1]}
    IN R[Len(g_targets)]

\* The commands c depends on, over one or more dependency edges.
TransitiveCommandDeps(c) ==
    LET R[k \in 0..Len(g_commands)] ==
            IF k = 0 THEN command_deps(c)
            ELSE R[k - 1] \cup UNION {command_deps(d) : d \in R[k - 1]}
    IN R[Len(g_commands)]

\* The commands of S with their transitive dependencies.
WithCommandDeps(S) == S \cup UNION {TransitiveCommandDeps(c) : c \in S}

\* The commands a default build reaches: it visits every target.
ReachableCommands ==
    WithCommandDeps(UNION {PreCommands(t) \cup PostCommands(t) : t \in DOMAIN g_targets})

OnTargetCycle(t) == t \in TransitiveTargetDeps(t)
TargetCycle == \E t \in DOMAIN g_targets : OnTargetCycle(t)
ReachesTargetCycle(t) ==
    OnTargetCycle(t) \/ \E u \in TransitiveTargetDeps(t) : OnTargetCycle(u)
OnCommandCycle(c) == c \in TransitiveCommandDeps(c)
CommandCycleReached == \E c \in ReachableCommands : OnCommandCycle(c)
AcyclicGraph == ~TargetCycle /\ ~CommandCycleReached

\* The call returned 0 / returned non-zero (a crashed call returns nothing).
Succeeded(r) == ~r.crashed /\ r.rc = 0
Failed(r) == ~r.crashed /\ r.rc # 0

\* The call took the default build: no argument, or one that is neither
\* --manifest nor clean nor a registered subcommand.
DefaultBuild(r) ==
    \/ r.argv = <<>>
    \/ /\ r.argv[1] \notin {"--manifest", "clean"}
       /\ find_subcommand(g_subcommands, r.argv[1]) = 0
DefaultBuilds == {n \in DOMAIN runs : DefaultBuild(runs[n])}

\* A compile, archive or link subprocess call.
IsStep(e) == e[1] \in {"COMPILE", "LINK"}
StepsOf(r) == SelectSeq(r.log, IsStep)

\* The positions of the log at which command c's shell line was executed.
Executions(r, c) ==
    {i \in DOMAIN r.log : r.log[i][1] = "COMMAND" /\ r.log[i][2] = c}

\* Nothing failed: no command carried a failed result into the run, and no
\* shell line of the run exited non-zero.
NoFailure(r) ==
    /\ \A c \in DOMAIN r.cmds0 : ~(r.cmds0[c].executed /\ r.cmds0[c].result # 0)
    /\ \A i \in DOMAIN r.log :
          r.log[i][1] \in {"COMMAND", "COMPILE", "LINK"} => r.log[i][Len(r.log[i])] = 0

----------------------------------------------------------------------------
(* Scheduling properties (Spec) *)

\* C1: in a cbuild_run over an acyclic graph, when build_target(T) starts,
\* every transitive target dependency of T has completed its build step
\* without error, and every pre-command of T and every command those depend
\* on has executed with result 0.
C1_BuildAfterDependencies ==
    \A n \in DOMAIN runs :
        AcyclicGraph =>
            \A i \in DOMAIN runs[n].log :
                runs[n].log[i][1] = "BUILD" =>
                    /\ \A u \in TransitiveTargetDeps(runs[n].log[i][2]) :
                          \E j \in 1..(i - 1) : runs[n].log[j] = <<"DONE", u>>
                    /\ \A c \in WithCommandDeps(PreCommands(runs[n].log[i][2])) :
                          \/ runs[n].cmds0[c].executed /\ runs[n].cmds0[c].result = 0
                          \/ \E j \in 1..(i - 1) : runs[n].log[j] = <<"COMMAND", c, 0>>

\* C2 as stated: with a cycle among the targets, cbuild_run returns non-zero,
\* reports a circular dependency naming a target, and executes no compile,
\* archive or link step.
C2_CycleNoStep ==
    \A n \in DefaultBuilds :
        TargetCycle =>
            /\ Failed(runs[n])
            /\ \E i \in DOMAIN runs[n].log : runs[n].log[i][1] = "CYCLE"
            /\ StepsOf(runs[n]) = <<>>

\* C2: with a cycle among the targets, a default build never returns 0 and
\* executes no compile, archive or link step of a target that is on a cycle
\* or reaches one; when it does not crash and nothing failed, it returns
\* non-zero and reports a circular dependency naming a target on a cycle.
C2_CycleTargetsNeverBuilt ==
    \A n \in DefaultBuilds :
        TargetCycle =>
            /\ ~Succeeded(runs[n])
            /\ \A i \in DOMAIN runs[n].log :
                  IsStep(runs[n].log[i]) => ~ReachesTargetCycle(runs[n].log[i][2])
            /\ (~runs[n].crashed /\ NoFailure(runs[n])) =>
                  /\ Failed(runs[n])
                  /\ \E i \in DOMAIN runs[n].log :
                        /\ runs[n].log[i][1] = "CYCLE"
                        /\ OnTargetCycle(runs[n].log[i][2])

\* A run on a graph with a target cycle that compiled and linked a target
\* off the cycle before it reported the cycle.
C2_Witness ==
    \E n \in DefaultBuilds :
        /\ TargetCycle
        /\ Failed(runs[n])
        /\ NoFailure(runs[n])
        /\ StepsOf(runs[n]) # <<>>
        /\ \E i \in DOMAIN runs[n].log : runs[n].log[i][1] = "CYCLE"

\* C3: when a target reaches a command on a command-dependency cycle, the
\* run terminates and returns non-zero.
C3_CommandCycleIsError ==
    \A n \in DefaultBuilds : CommandCycleReached => Failed(runs[n])

\* C4: within one cbuild_run the shell line of a command is executed at most
\* once.
C4_CommandAtMostOnce ==
    \A n \in DOMAIN runs : \A c \in Commands :
        Cardinality(Executions(runs[n], c)) <= 1

\* A successful run in which command c is a pre-command of a target and a
\* dependency of that target's post-command d, and each ran once.
C4_Witness ==
    \E n \in DOMAIN runs : \E t \in Targets : \E c, d \in Commands :
        /\ Succeeded(runs[n])
        /\ c # d
        /\ c \in PreCommands(t)
        /\ d \in PostCommands(t)
        /\ c \in command_deps(d)
        /\ Cardinality(Executions(runs[n], c)) = 1
        /\ Cardinality(Executions(runs[n], d)) = 1

\* C5 as stated: each command reachable in a cbuild_run is executed exactly
\* once during that run.
C5_ReachableExactlyOnce ==
    \A n \in DefaultBuilds : \A c \in ReachableCommands :
        Cardinality(Executions(runs[n], c)) = 1

\* C5: in a cbuild_run that returns 0, each reachable command that had not
\* executed when the run started is executed exactly once, and each that had
\* is not executed.
C5_ReachableOnceWhenSucceeded ==
    \A n \in DefaultBuilds :
        Succeeded(runs[n]) =>
            \A c \in ReachableCommands :
                Cardinality(Executions(runs[n], c)) =
                    IF runs[n].cmds0[c].executed THEN 0 ELSE 1

\* A successful run with a command reached from both targets that ran once
\* and another reachable command, executed before the run, that did not run.
C5_Witness ==
    \E n \in DefaultBuilds : \E c, d \in ReachableCommands :
        /\ Succeeded(runs[n])
        /\ c \in PreCommands(1) \cap PostCommands(2)
        /\ ~runs[n].cmds0[c].executed
        /\ Cardinality(Executions(runs[n], c)) = 1
        /\ runs[n].cmds0[d].executed
        /\ Executions(runs[n], d) = {}

\* C10 as stated: for a post-command C of T, in a cbuild_run in which T is
\* built, C's shell line runs, strictly after T's build step.
C10_PostCommandRunsAfterLink ==
    \A n \in DefaultBuilds : \A t \in Targets : \A c \in PostCommands(t) :
        (\E i \in DOMAIN runs[n].log : runs[n].log[i] = <<"BUILD", t>>) =>
            \E j \in Executions(runs[n], c) :
                \A i \in DOMAIN runs[n].log :
                    (/\ runs[n].log[i][1] \in {"BUILD", "COMPILE", "LINK", "DONE"}
                     /\ runs[n].log[i][2] = t) => i < j

\* Command c is reached otherwise than as a post-command of t: it is a
\* pre-command of a target, a post-command of another target, or a
\* dependency of one of these.
SharedPostCommand(c, t) ==
    \/ c \in WithCommandDeps(UNION {PreCommands(u) : u \in Targets})
    \/ c \in WithCommandDeps(UNION {PostCommands(u) : u \in Targets \ {t}})

\* C10: in a cbuild_run that returns 0, every target T is built, and a
\* post-command C of T that had not executed when T's build step began runs
\* in this run, with result 0, after T's build step has finished; C had not
\* executed by then when it had not executed before the run and is reached
\* only as a post-command of T.
C10_PostCommandAfterLinkUnlessExecuted ==
    \A n \in DefaultBuilds :
        Succeeded(runs[n]) =>
            \A t \in Targets : \A c \in PostCommands(t) :
                \E i, k \in DOMAIN runs[n].log :
                    /\ runs[n].log[i] = <<"BUILD", t>>
                    /\ runs[n].log[k] = <<"DONE", t>>
                    /\ i < k
                    /\ \/ runs[n].cmds0[c].executed
                       \/ \E j \in Executions(runs[n], c) : j < i
                       \/ \E j \in Executions(runs[n], c) :
                             k < j /\ runs[n].log[j] = <<"COMMAND", c, 0>>
                    /\ (~runs[n].cmds0[c].executed /\ ~SharedPostCommand(c, t)) =>
                          \A j \in Executions(runs[n], c) : k < j

\* A successful run in which a post-command shared by both targets ran
\* after the build step of the first of them.
C10_Witness ==
    \E n \in DefaultBuilds : \E c \in PostCommands(1) \cap PostCommands(2) :
        /\ Succeeded(runs[n])
        /\ ~runs[n].cmds0[c].executed
        /\ \E k \in DOMAIN runs[n].log : \E j \in Executions(runs[n], c) :
              runs[n].log[k] = <<"DONE", 1>> /\ k < j

----------------------------------------------------------------------------
(* Freshness properties (SpecFresh) *)

\* The object file of source k of target t.
ObjectOf(t, k) == ObjName(g_targets[t], g_targets[t].sources[k])

\* Some source carried an mtime later than the time the run started.
FutureSource(r) == \E s \in SourceFiles : r.fs0[s] > r.clock0

\* The second run follows a successful first run with the filesystem as the
\* first run left it.
RerunUnchanged ==
    /\ Len(runs) = 2
    /\ Succeeded(runs[1])
    /\ runs[2].fs0 = runs[1].fs1

C7_ObjectNotOlderThanSource ==
    \A n \in DOMAIN runs :
        Succeeded(runs[n]) =>
            \A t \in Targets : \A k \in DOMAIN g_targets[t].sources :
                /\ runs[n].fs1[ObjectOf(t, k)] # 0
                /\ runs[n].fs1[ObjectOf(t, k)] >= runs[n].fs1[g_targets[t].sources[k]]

\* C7: after a cbuild_run that returns 0, the object of every source S of
\* every target exists, and its mtime is >= S's mtime when S's mtime was not
\* later than the time the run started.
C7_ObjectNotOlderUnlessFuture ==
    \A n \in DOMAIN runs :
        Succeeded(runs[n]) =>
            \A t \in Targets : \A k \in DOMAIN g_targets[t].sources :
                /\ runs[n].fs1[ObjectOf(t, k)] # 0
                /\ runs[n].fs0[g_targets[t].sources[k]] <= runs[n].clock0 =>
                      runs[n].fs1[ObjectOf(t, k)] >= runs[n].fs1[g_targets[t].sources[k]]

\* A successful second run that recompiled a source stamped, after the
\* first run, later than its object and not later than the clock.
C7_Witness ==
    /\ Len(runs) = 2
    /\ Succeeded(runs[1])
    /\ Succeeded(runs[2])
    /\ \E t \in Targets : \E k \in DOMAIN g_targets[t].sources :
          /\ runs[2].fs0[g_targets[t].sources[k]] > runs[2].fs0[ObjectOf(t, k)]
          /\ runs[2].fs0[g_targets[t].sources[k]] <= runs[2].clock0
          /\ runs[2].fs1[ObjectOf(t, k)] >= runs[2].fs1[g_targets[t].sources[k]]

\* C8: after a cbuild_run that returns 0, the output of every target T with
\* a source exists and its mtime is >= the mtime of every object of T and of
\* the output of every target dependency of T.
C8_OutputNotOlderThanInputs ==
    \A n \in DOMAIN runs :
        Succeeded(runs[n]) =>
            \A t \in Targets :
                Len(g_targets[t].sources) >= 1 =>
                    /\ runs[n].fs1[g_targets[t].output_file] # 0
                    /\ \A k \in DOMAIN g_targets[t].sources :
                          runs[n].fs1[g_targets[t].output_file] >= runs[n].fs1[ObjectOf(t, k)]
                    /\ \A u \in target_deps(t) :
                          runs[n].fs1[g_targets[t].output_file] >=
                              runs[n].fs1[g_targets[u].output_file]

\* A successful second run that archived a dependency anew, later than the
\* output its dependant had.
C8_Witness ==
    /\ Len(runs) = 2
    /\ Succeeded(runs[1])
    /\ Succeeded(runs[2])
    /\ \E t \in Targets : \E u \in target_deps(t) :
          /\ runs[2].fs1[g_targets[u].output_file] > runs[2].fs0[g_targets[t].output_file]
          /\ runs[2].fs1[g_targets[t].output_file] >= runs[2].fs1[g_targets[u].output_file]

\* After a successful first run, the mtime of source k of target l, and
\* nothing else, was moved forward before the second run.
MovedForward(l, k) ==
    /\ Len(runs) = 2
    /\ Succeeded(runs[1])
    /\ runs[2].fs0[g_targets[l].sources[k]] > runs[1].fs1[g_targets[l].sources[k]]
    /\ \A p \in Paths \ {g_targets[l].sources[k]} : runs[2].fs0[p] = runs[1].fs1[p]

\* The second run compiled source k of l, archived l and linked e, in this
\* order, and nothing else.
RebuiltInOrder(l, k, e) ==
    StepsOf(runs[2]) = << <<"COMPILE", l, k, 0>>, <<"LINK", l, 0>>, <<"LINK", e, 0>> >>

\* Executable e links static library l.
ExeLinksLib(e, l) ==
    /\ g_targets[l].type = "TARGET_STATIC_LIB"
    /\ g_targets[e].type = "TARGET_EXECUTABLE"
    /\ l \in target_deps(e)

\* C9 as stated: after a successful build of static library L and executable
\* E that links L, moving the mtime of one source S of L forward and running
\* again recompiles only S, then relinks L, then relinks E.
C9_TouchRebuildsChain ==
    \A l, e \in Targets : \A k \in DOMAIN g_targets[l].sources :
        (ExeLinksLib(e, l) /\ MovedForward(l, k)) => RebuiltInOrder(l, k, e)

\* C9: the same, when S's new mtime is strictly later than its object's, no
\* other source is later than its object, the second run starts strictly
\* later than the mtimes of L's and E's outputs, and no step of the second
\* run fails.
C9_TouchRebuildsChainWhenNewer ==
    \A l, e \in Targets : \A k \in DOMAIN g_targets[l].sources :
        (/\ ExeLinksLib(e, l)
         /\ MovedForward(l, k)
         /\ NoFailure(runs[2])
         /\ \A t \in Targets : \A i \in DOMAIN g_targets[t].sources :
               (runs[2].fs0[g_targets[t].sources[i]] > runs[2].fs0[ObjectOf(t, i)])
                   <=> (t = l /\ i = k)
         /\ runs[2].clock0 > runs[2].fs0[g_targets[l].output_file]
         /\ runs[2].clock0 > runs[2].fs0[g_targets[e].output_file])
            => RebuiltInOrder(l, k, e)

\* The touched source was recompiled, then the library archived, then the
\* executable linked.
C9_Witness ==
    \E l, e \in Targets : \E k \in DOMAIN g_targets[l].sources :
        /\ ExeLinksLib(e, l)
        /\ MovedForward(l, k)
        /\ runs[2].fs0[g_targets[l].sources[k]] > runs[2].fs0[ObjectOf(l, k)]
        /\ runs[2].clock0 > runs[2].fs0[g_targets[e].output_file]
        /\ RebuiltInOrder(l, k, e)

----------------------------------------------------------------------------
(* Command lines and error handling (SpecArgs) *)

\* The call builds: its argument is neither --manifest nor clean.
BuildRun(r) == r.argv = <<>> \/ r.argv[1] \notin {"--manifest", "clean"}

\* The shell lines a run starts: commands, compiles, archives and links,
\* the subcommand's line, a subproject's clean.
IsSubprocess(e) == e[1] \in {"COMMAND", "COMPILE", "LINK", "SUBCMD", "CLEAN"}

\* A step of the run failed: a shell line of the run exited non-zero, or a
\* circular dependency was reported.
StepFailed(r) ==
    \E i \in DOMAIN r.log :
        \/ IsSubprocess(r.log[i]) /\ r.log[i][Len(r.log[i])] # 0
        \/ r.log[i][1] = "CYCLE"

\* C11: a building cbuild_run returns 0 exactly when no step failed, and
\* non-zero exactly when a command, compile, archive or link step or the
\* subcommand's shell line failed or a cycle was found.
C11_ZeroExactlyWhenNoStepFailed ==
    \A n \in DOMAIN runs :
        BuildRun(runs[n]) =>
            /\ Succeeded(runs[n]) <=> ~StepFailed(runs[n])
            /\ Failed(runs[n]) <=> StepFailed(runs[n])

\* C12: once error_flag is set in a run, the run starts no further
\* subprocess and begins no further build step.
C12_NothingStartsAfterError ==
    \A n \in DOMAIN runs : \A i, j \in DOMAIN runs[n].log :
        (i < j /\ runs[n].log[i] = <<"ERROR">>) =>
            ~IsSubprocess(runs[n].log[j]) /\ runs[n].log[j][1] # "BUILD"

\* A run whose first compile failed with a source compiled before it in
\* another target: the flag was set, and the failing target was not linked
\* and the run returned non-zero with the flag as its last event.
C12_Witness ==
    \E n \in DOMAIN runs : \E t \in Targets : \E i \in DOMAIN runs[n].log :
        /\ runs[n].log[i] = <<"COMPILE", t, 1, 1>>
        /\ i < Len(runs[n].log)
        /\ runs[n].log[i + 1] = <<"ERROR">>
        /\ Len(runs[n].log) = i + 1
        /\ \E u \in Targets \ {t} : \E k \in 1..i : runs[n].log[k] = <<"DONE", u>>
        /\ Failed(runs[n])

\* C19: cbuild_run called with a registered target's name builds only that
\* target and its dependencies: no build step runs for a target outside the
\* named target's dependency closure.
C19_NamedTargetOnly ==
    \A n \in DOMAIN runs : \A t \in Targets :
        runs[n].argv = <<g_targets[t].name>> =>
            \A i \in DOMAIN runs[n].log :
                runs[n].log[i][1] \in {"BUILD", "COMPILE", "LINK"} =>
                    runs[n].log[i][2] \in {t} \cup TransitiveTargetDeps(t)

\* The record the no-argument build leaves from the state run r started
\* in, when the step fail fails.
NoArgumentBuild(r, fail) ==
    RunRecord(<<>>,
              cbuild_run(<<>>, StartState(g_targets, r.cmds0, r.fs0, r.clock0, r.latency),
                         g_subcommands, g_subprojects, g_output_dir, fail),
              r.cmds0, r.fs0, r.clock0)

----------------------------------------------------------------------------
(* Subprojects, manifest and registry properties (SpecSub) *)

\* A proxy target: cbuild_subproject_get_target leaves its obj_dir NULL.
IsProxy(t) == t.obj_dir = NullPath

\* C13: no cbuild_run runs a compile, archive or link step whose output is
\* the output file of a proxy target, whatever the subproject's build
\* command left on disk.
C13_ProxyOutputNeverWritten ==
    \A n \in DOMAIN runs : \A i \in DOMAIN runs[n].log :
        runs[n].log[i][1] \in {"COMPILE", "LINK"} =>
            ~IsProxy(g_targets[runs[n].log[i][2]])

\* The manifest of a registry: one line KIND NAME PATH for each target that
\* is not a proxy, in registration order.
ManifestOfOwnTargets(tg) ==
    LET f[i \in 0..Len(tg)] ==
            IF i = 0 THEN <<>>
            ELSE IF IsProxy(tg[i]) THEN f[i - 1]
            ELSE f[i - 1] \o <<KindText(tg[i].type), " ">> \o Atoms(tg[i].name) \o <<" ">>
                     \o PathText(tg[i].output_file) \o <<"\n">>
    IN f[Len(tg)]

\* C14: cbuild_run --manifest prints exactly one line KIND NAME PATH per
\* non-proxy target, in registration order, and none for a proxy; it runs
\* no command, compile or link step, changes no file and returns 0.
C14_ManifestOfOwnTargets ==
    \A n \in DOMAIN runs :
        runs[n].argv = <<"--manifest">> =>
            /\ runs[n].out = ManifestOfOwnTargets(g_targets)
            /\ runs[n].log = <<>>
            /\ runs[n].fs1 = runs[n].fs0
            /\ Succeeded(runs[n])

\* C15: manifest round trip: the records cbuild__parse_manifest builds from
\* the text the subproject's --manifest mode prints are the (kind, name,
\* relative path) of the subproject's targets, in the same order.
C15_ManifestRoundTrip ==
    \A s \in DOMAIN g_subprojects :
        g_subprojects[s].manifest_loaded =>
            /\ Len(g_subprojects[s].targets) = Len(g_subprojects[s].driver)
            /\ \A i \in DOMAIN g_subprojects[s].targets :
                  /\ g_subprojects[s].targets[i].type =
                         <<KindText(g_subprojects[s].driver[i].type)>>
                  /\ g_subprojects[s].targets[i].name =
                         Atoms(g_subprojects[s].driver[i].name)
                  /\ g_subprojects[s].targets[i].output_path =
                         PathText(g_subprojects[s].driver[i].output_file)

\* The records of subproject s named name (its manifest read).
ManifestRecords(s, name) ==
    {i \in DOMAIN g_subprojects[s].targets :
        g_subprojects[s].targets[i].name = Atoms(name)}

\* The calls for (subproject, name) of call k that came before it.
EarlierCalls(k) ==
    {j \in 1..(k - 1) : calls[j].sub = calls[k].sub /\ calls[j].name = calls[k].name
                        /\ calls[j].ret # 0}

\* C16: of the calls of cbuild_subproject_get_target for a name found in
\* the subproject's manifest (the manifest read), the first appends exactly one target to the
\* registry, a proxy whose output path is <subproject dir>/<relative path>
\* and whose only pre-command is the subproject's build command, and
\* returns it; each later one returns the same target and leaves the
\* registry unchanged.
C16_ProxyCreatedOnceAndCached ==
    \A k \in DOMAIN calls :
        LET sub == g_subprojects[calls[k].sub] IN
        (calls[k].loaded /\ ManifestRecords(calls[k].sub, calls[k].name) # {}) =>
            IF EarlierCalls(k) = {}
            THEN /\ Len(calls[k].after) = Len(calls[k].before) + 1
                 /\ SubSeq(calls[k].after, 1, Len(calls[k].before)) = calls[k].before
                 /\ calls[k].ret = Len(calls[k].after)
                 /\ IsProxy(calls[k].after[calls[k].ret])
                 /\ calls[k].after[calls[k].ret].commands = <<sub.build_cmd>>
                 /\ calls[k].after[calls[k].ret].post_commands = <<>>
                 /\ \E i \in ManifestRecords(calls[k].sub, calls[k].name) :
                        Join(PathText(calls[k].after[calls[k].ret].output_file)) =
                            sub.directory \o "/" \o Join(sub.targets[i].output_path)
            ELSE /\ calls[k].after = calls[k].before
                 /\ \A j \in EarlierCalls(k) : calls[k].ret = calls[j].ret

\* Two calls for math: the first created the proxy lib_math, the second
\* returned it.
C16_Witness ==
    /\ Len(calls) = 2
    /\ calls[1].name = "math" /\ calls[2].name = "math"
    /\ calls[1].ret # 0
    /\ calls[2].ret = calls[1].ret
    /\ calls[1].after # calls[1].before
    /\ g_targets[calls[1].ret].name = "lib_math"
    /\ g_targets[calls[1].ret].output_file = <<"lib", "build", "libmath.a">>

\* Sequence a is the start of sequence b.
IsPrefix(a, b) == Len(a) <= Len(b) /\ SubSeq(b, 1, Len(a)) = a

\* C17: after any sequence of registration calls the names of the targets
\* in the registry are pairwise distinct, and the registry only grows at
\* its end: a target, once registered, keeps its place.
C17_NamesDistinctInOrder ==
    /\ \A i, j \in DOMAIN g_targets :
          i # j => g_targets[i].name # g_targets[j].name
    /\ \A k \in DOMAIN calls :
          IsPrefix(calls[k].before, calls[k].after) /\ IsPrefix(calls[k].after, g_targets)

\* C18: when cbuild_run builds or cleans, every target that is not a proxy
\* has obj_dir = <output_dir>/obj_<name> and its output file directly under
\* <output_dir>, output_dir being the setting in force (default "build"),
\* whatever the order of cbuild_set_output_dir and the registrations.
C18_PathsUnderOutputDir ==
    \A n \in DOMAIN runs :
        runs[n].argv \in {<<>>, <<"clean">>} =>
            \A i \in DOMAIN g_targets :
                ~IsProxy(g_targets[i]) =>
                    /\ g_targets[i].obj_dir =
                           <<cbuild_init(g_output_dir), "obj_" \o g_targets[i].name>>
                    /\ Len(g_targets[i].output_file) = 2
                    /\ g_targets[i].output_file[1] = cbuild_init(g_output_dir)

----------------------------------------------------------------------------
(* Subcommands and clean (SpecArgs) *)

\* The positions of run r's log at which the subcommand ran: its shell line
\* or its callback.
SubcommandRuns(r) == {i \in DOMAIN r.log : r.log[i][1] \in {"SUBCMD", "CALLBACK"}}

\* What C21 says of run r, whose first argument names the subcommand sci:
\* only the subcommand's target and its dependencies are built; the
\* subcommand runs at most once, as the last thing of the run, after its
\* target was built, and the run returns the status of its shell line (0
\* after a callback); after a failed build it does not run and the run does
\* not return 0; a build that did not fail is followed by the subcommand.
SubcommandDispatched(r, sci) ==
    LET t == g_subcommands[sci].target IN
    /\ \A i \in DOMAIN r.log :
          r.log[i][1] \in {"BUILD", "COMPILE", "LINK", "DONE"} =>
              r.log[i][2] \in {t} \cup TransitiveTargetDeps(t)
    /\ \A i \in SubcommandRuns(r) :
          /\ i = Len(r.log)
          /\ r.log[i][2] = sci
          /\ r.log[i][1] = IF g_subcommands[sci].callback THEN "CALLBACK" ELSE "SUBCMD"
          /\ \E k \in 1..(i - 1) : r.log[k] = <<"DONE", t>>
          /\ \A k \in 1..(i - 1) : r.log[k] # <<"ERROR">>
          /\ ~r.crashed
          /\ r.rc = IF r.log[i][1] = "SUBCMD" THEN r.log[i][3] ELSE 0
    /\ (r.crashed \/ \E k \in DOMAIN r.log : r.log[k] = <<"ERROR">>) =>
          SubcommandRuns(r) = {} /\ ~Succeeded(r)
    /\ (~r.crashed /\ \A k \in DOMAIN r.log : r.log[k] # <<"ERROR">>) =>
          SubcommandRuns(r) # {}

\* C21 as stated: whenever the first argument matches a registered
\* subcommand, cbuild_run builds the subcommand's target and its
\* dependencies and no other target, then, only if that build succeeded,
\* runs the subcommand and returns its result; after a failed build the
\* subcommand is not run and the return is non-zero.
C21_SubcommandBuildsThenRuns ==
    \A n \in DOMAIN runs :
        (runs[n].argv # <<>> /\ find_subcommand(g_subcommands, runs[n].argv[1]) # 0) =>
            SubcommandDispatched(runs[n], find_subcommand(g_subcommands, runs[n].argv[1]))

\* C21: the same, for a first argument that matches a registered subcommand
\* and is neither clean nor --manifest (the built-in verbs are tried first).
C21_SubcommandBuildsThenRunsUnlessVerb ==
    \A n \in DOMAIN runs :
        (/\ runs[n].argv # <<>>
         /\ runs[n].argv[1] \notin {"clean", "--manifest"}
         /\ find_subcommand(g_subcommands, runs[n].argv[1]) # 0) =>
            SubcommandDispatched(runs[n], find_subcommand(g_subcommands, runs[n].argv[1]))

\* The run of test on the graph where main links math: both targets were
\* compiled and linked, then the shell line ran and failed, and the run
\* returned its status.
C21_Witness ==
    \E n \in DOMAIN runs :
        /\ runs[n].argv = <<"test">>
        /\ 1 \in target_deps(2)
        /\ StepsOf(runs[n]) = << <<"COMPILE", 1, 1, 0>>, <<"LINK", 1, 0>>,
                                 <<"COMPILE", 2, 1, 0>>, <<"LINK", 2, 0>> >>
        /\ runs[n].log[Len(runs[n].log)] = <<"SUBCMD", 1, 1>>
        /\ Failed(runs[n])

\* The removals clean makes for the targets from i on, in order: obj_dir
\* (when set) then output_file (when set) of each.
RECURSIVE TargetRemovals(_, _)
TargetRemovals(tg, i) ==
    IF i > Len(tg) THEN <<>>
    ELSE (IF tg[i].obj_dir # NullPath THEN << <<"RMDIR", tg[i].obj_dir>> >> ELSE <<>>)
         \o (IF tg[i].output_file # NullPath THEN << <<"RM", tg[i].output_file>> >> ELSE <<>>)
         \o TargetRemovals(tg, i + 1)

\* Run r is a clean as the documentation describes it: the clean of every
\* subproject in registration order, whatever each returned, then the
\* removals of the targets, then the output directory; the files are gone
\* and the call returned 0.
CleanDone(r, tg, subprojects, output_dir) ==
    LET n == Len(subprojects)
    IN /\ ~r.crashed
       /\ r.rc = 0
       /\ Len(r.log) >= n
       /\ \A i \in 1..n : r.log[i][1] = "CLEAN" /\ r.log[i][2] = i
       /\ SubSeq(r.log, n + 1, Len(r.log))
              = TargetRemovals(tg, 1) \o << <<"RMDIR", <<output_dir>> >> >>
       /\ \A p \in DOMAIN r.fs1 :
             (\/ \E i \in DOMAIN tg : Under(p, tg[i].obj_dir) \/ p = tg[i].output_file
              \/ Under(p, <<output_dir>>))
                 => r.fs1[p] = 0

\* C22: cbuild_run clean runs the clean of every subproject before any
\* removal of its own, then removes obj_dir and output_file of each target
\* and last the output directory; a failing subproject clean stops nothing;
\* the call returns 0 and leaves targets, commands and subprojects as they
\* were.
C22_CleanSubprojectsThenOwnArtifacts ==
    [][ (runs' # runs /\ runs'[Len(runs')].argv = <<"clean">>)
            => /\ CleanDone(runs'[Len(runs')], g_targets, g_subprojects, g_output_dir)
               /\ g_targets' = g_targets
               /\ g_commands' = g_commands
               /\ g_subprojects' = g_subprojects
               /\ g_subcommands' = g_subcommands ]_vars

\* A clean with two subprojects, the first of which failed to clean: the
\* second was cleaned, the executable that existed is gone, 0 was returned.
C22_Witness ==
    \E n \in DOMAIN runs :
        /\ runs[n].argv = <<"clean">>
        /\ Len(g_subprojects) = 2
        /\ Len(g_targets) = 3
        /\ runs[n].log[1] = <<"CLEAN", 1, 1>>
        /\ runs[n].log[2] = <<"CLEAN", 2, 0>>
        /\ runs[n].fs0[CleanTarget.output_file] = 1
        /\ runs[n].fs0[ObjName(CleanTarget, <<"main.c">>)] = 1
        /\ runs[n].fs1[CleanTarget.output_file] = 0
        /\ runs[n].rc = 0

----------------------------------------------------------------------------
(* Compile lines and the compile-commands index (SpecCompile) *)

\* The sources of the registry, target after target, each target's in the
\* order they were added.
SourceList(tg) ==
    LET f[i \in 0..Len(tg)] ==
            IF i = 0 THEN <<>>
            ELSE f[i - 1] \o [k \in DOMAIN tg[i].sources |->
                                 [target |-> i, file |-> tg[i].sources[k]]]
    IN f[Len(tg)]

\* The step is a call of cbuild_run; the record of that call.
RunStep == runs' # runs
ThisRun == runs'[Len(runs')]

\* C23: with generation enabled, after a cbuild_run the index holds one
\* entry per source, in registration order then source order, whose command
\* is the line compile_source builds for that source; every line the run
\* executed is the command recorded for its source.
C23_IndexMatchesCompileLines ==
    [][ (RunStep /\ g_generate_compile_commands)
            => LET idx == ThisRun.cc_entries
                   srcs == SourceList(g_targets)
               IN /\ Len(idx) = Len(srcs)
                  /\ \A k \in DOMAIN srcs :
                        /\ idx[k].file = srcs[k].file
                        /\ idx[k].command =
                               compile_command(g_targets[srcs[k].target],
                                   ObjName(g_targets[srcs[k].target], srcs[k].file),
                                   srcs[k].file)
                  /\ \A n \in DOMAIN ThisRun.lines :
                        \E k \in DOMAIN srcs :
                            /\ srcs[k].target = ThisRun.lines[n].target
                            /\ srcs[k].file = ThisRun.lines[n].file
                            /\ idx[k].command = ThisRun.lines[n].command ]_vars

\* A run with generation enabled compiled main.c with per-target flags
\* while global flags were set, and recorded both sources.
C23_Witness ==
    \E n \in DOMAIN runs :
        /\ Len(runs[n].cc_entries) = 2
        /\ \E k \in DOMAIN runs[n].lines :
              /\ runs[n].lines[k].target = 2
              /\ \E j \in DOMAIN runs[n].lines[k].command :
                    runs[n].lines[k].command[j] = "-Wall "
        /\ g_global_cflags = "-O2 "
        /\ Len(calls) = 2
        /\ calls[1].op = "cbuild_add_global_cflags"

\* C24: a cbuild_run leaves in the index nothing but what it collected
\* itself: nothing if generation is disabled, else one entry per source, no
\* source twice, each with the command of the current flags; no other call
\* changes the index.
C24_IndexResetEachRun ==
    [][ /\ RunStep =>
            IF ~g_generate_compile_commands THEN g_cc_entries' = <<>>
            ELSE LET srcs == SourceList(g_targets)
                 IN /\ Len(g_cc_entries') = Len(srcs)
                    /\ \A j, k \in DOMAIN g_cc_entries' :
                          j # k => g_cc_entries'[j].file # g_cc_entries'[k].file
                    /\ \A k \in DOMAIN g_cc_entries' :
                          \E m \in DOMAIN srcs :
                              /\ g_cc_entries'[k].file = srcs[m].file
                              /\ g_cc_entries'[k].command =
                                     collect_command(g_targets[srcs[m].target],
                                         ObjName(g_targets[srcs[m].target], srcs[m].file),
                                         srcs[m].file)
        /\ ~RunStep => g_cc_entries' = g_cc_entries ]_vars

\* Two runs with generation enabled and a flag call between them: the
\* index of the second differs from that of the first and is no longer.
C24_Witness ==
    /\ Len(runs) = 2
    /\ runs[1].cc_entries # <<>>
    /\ runs[2].cc_entries # <<>>
    /\ runs[2].cc_entries # runs[1].cc_entries
    /\ Len(runs[2].cc_entries) = Len(runs[1].cc_entries)
    /\ g_cc_entries = runs[2].cc_entries

\* The run with generation disabled after one that filled the index.
IndexEmptiedWhenDisabled ==
    /\ Len(runs) = 2
    /\ runs[1].cc_entries # <<>>
    /\ runs[2].cc_entries = <<>>

\* The values cbuild_target_add_cflags was called with for target t, in
\* call order.
FlagValues(cs, t) ==
    LET sel == SelectSeq(cs, LAMBDA c : c.op = "cbuild_target_add_cflags" /\ c.target = t)
    IN [k \in DOMAIN sel |-> sel[k].flags]

\* The values with a blank between them.
JoinBlank(vals) ==
    LET f[i \in 0..Len(vals)] ==
            IF i = 0 THEN ""
            ELSE IF i = 1 THEN vals[1]
            ELSE f[i - 1] \o " " \o vals[i]
    IN f[Len(vals)]

\* The pieces of a command line.
Pieces(line) == {line[k] : k \in DOMAIN line}

\* The compile line `line` of a source of target t carries the per-target
\* flags and no global flags when `own` holds, the global flags otherwise.
FlagsOfLine(line, t, own) ==
    IF own
    THEN /\ (JoinBlank(FlagValues(calls, t)) \o " ") \in Pieces(line)
         /\ g_global_cflags # NULL => (g_global_cflags \o " ") \notin Pieces(line)
    ELSE /\ g_global_cflags # NULL => (g_global_cflags \o " ") \in Pieces(line)
         /\ \A v \in TargetFlags : v # "" => (v \o " ") \notin Pieces(line)

\* C25 as stated: every compile line a run executes for target T carries
\* T's cflags and no global cflags if cbuild_target_add_cflags was called
\* for T, and the global cflags if it was not.
C25_TargetFlagsReplaceGlobal ==
    [][ RunStep =>
            \A n \in DOMAIN ThisRun.lines :
                FlagsOfLine(ThisRun.lines[n].command, ThisRun.lines[n].target,
                            FlagValues(calls, ThisRun.lines[n].target) # <<>>) ]_vars

\* C25: every compile line a run executes for target T carries T's cflags
\* (the values added, in call order, a blank between them) and no global
\* cflags if that text is not empty, and the global cflags if it is empty
\* or no value was added; the order of the global and per-target calls does
\* not matter.
C25_NonEmptyTargetFlagsReplaceGlobal ==
    [][ RunStep =>
            \A n \in DOMAIN ThisRun.lines :
                FlagsOfLine(ThisRun.lines[n].command, ThisRun.lines[n].target,
                            JoinBlank(FlagValues(calls, ThisRun.lines[n].target)) # "") ]_vars

\* A run compiled main.c after cbuild_target_add_cflags(main, "-Wall") and
\* then cbuild_add_global_cflags("-O2"), and math.c with the global flags.
C25_Witness ==
    /\ Len(calls) = 2
    /\ calls[1] = [op |-> "cbuild_target_add_cflags", target |-> 2, flags |-> "-Wall"]
    /\ calls[2].op = "cbuild_add_global_cflags"
    /\ \E n \in DOMAIN runs :
          /\ Len(runs[n].lines) = 2
          /\ "-O2  " \in Pieces(runs[n].lines[1].command)
          /\ "-Wall " \in Pieces(runs[n].lines[2].command)
          /\ "-O2  " \notin Pieces(runs[n].lines[2].command)

----------------------------------------------------------------------------
(* Self-rebuild (SpecSelf) *)

\* Some declared source is strictly newer than the executable on files.
NewerSource(files) ==
    \E i \in DOMAIN SelfSources : files[SelfSources[i]] > files[ExePath]

C27_FailedSelfRebuildExits ==
    \A k \in DOMAIN calls :
        (Len(calls[k].steps) >= 3 /\ calls[k].steps[3] = <<"system", 1>>)
            => /\ calls[k].outcome = "exited"
               /\ \A j \in DOMAIN calls[k].steps : calls[k].steps[j][1] # "execv"
               /\ k = Len(calls)
               /\ pc = "exited"
               /\ runs = <<>>

\* The compiler failed in the image execv started: the process is gone
\* without a run.
C27_Witness ==
    /\ Len(calls) = 2
    /\ calls[1].outcome = "exec"
    /\ Len(calls[2].steps) = 3
    /\ calls[2].steps[3] = <<"system", 1>>
    /\ calls[2].fs0[<<"build.c">>] # 0
    /\ pc = "exited"

----------------------------------------------------------------------------
(* Null pointers (SpecApi) *)

\* C28: a mutator call with a null target, or cbuild_target_link_library
\* with a null dependency, leaves the graph as it was and the process
\* alive.
C28_NullTargetIgnored ==
    \A k \in DOMAIN calls :
        (calls[k].target = 0
            \/ (calls[k].op = "cbuild_target_link_library" /\ calls[k].null_arg))
            => /\ calls[k].after = calls[k].before
               /\ ~calls[k].died

----------------------------------------------------------------------------
(* The freshness decisions (SpecDecide) *)

C30_RelinkWhenMissingOrNewer ==
    \A k \in DOMAIN calls :
        calls[k].fn = "needs_link" =>
            (calls[k].result <=>
                (\/ fs[DecideTarget.output_file] = 0
                 \/ fs[DecideObject] > fs[DecideTarget.output_file]
                 \/ /\ fs[DecideTarget.dependencies[1].output_file] # 0
                    /\ fs[DecideTarget.dependencies[1].output_file]
                           > fs[DecideTarget.output_file]))

\* C30: needs_link answers yes exactly when the output is missing, or an
\* object is missing or strictly newer than the output, or a dependency's
\* output exists and is strictly newer than the output; ties are fresh.
C30_RelinkWhenMissingOrNewerOrNoObject ==
    \A k \in DOMAIN calls :
        calls[k].fn = "needs_link" =>
            (calls[k].result <=>
                (\/ fs[DecideTarget.output_file] = 0
                 \/ fs[DecideObject] = 0
                 \/ fs[DecideObject] > fs[DecideTarget.output_file]
                 \/ /\ fs[DecideTarget.dependencies[1].output_file] # 0
                    /\ fs[DecideTarget.dependencies[1].output_file]
                           > fs[DecideTarget.output_file]))

\* The decision was no with the object and the dependency's output both
\* stamped like the output.
C30_Witness ==
    \E k \in DOMAIN calls :
        /\ calls[k].fn = "needs_link"
        /\ ~calls[k].result
        /\ fs[DecideObject] = fs[DecideTarget.output_file]
        /\ fs[DecideTarget.dependencies[1].output_file] = fs[DecideTarget.output_file]

----------------------------------------------------------------------------
(* Manifests of any child (SpecManifest) *)

\* The lines of a text, and the line as the parser cuts it.
LinesOf(text) == Tokens(text, "\n")
CutLine(line) == ParseLine(cbuild__trim(line))

\* A line of the wire format for name: three tokens, the kind one of
\* static_lib, shared_lib, executable.
WireLine(line, name) ==
    /\ CutLine(line).type # NULL /\ CutLine(line).name # NULL /\ CutLine(line).path # NULL
    /\ TypeOf(CutLine(line).type) # NULL
    /\ CutLine(line).name = Atoms(name)

\* The call k read the manifest: the child ran, exited 0 and printed.
ReadManifest(k) ==
    /\ calls[k].op = "cbuild_subproject_get_target"
    /\ calls[k].ran /\ calls[k].rc = 0 /\ calls[k].output # <<>>

\* C31: a manifest line whose kind is not static_lib, shared_lib or
\* executable, or that has fewer than three tokens, is skipped: when the
\* manifest holds a line of the wire format for a name,
\* cbuild_subproject_get_target for that name returns a proxy, and its
\* output path is that of the first such line.
C31_BadLinesSkipped ==
    \A k \in DOMAIN calls :
        ReadManifest(k) =>
            LET lines == LinesOf(calls[k].output)
                good == {i \in DOMAIN lines : WireLine(lines[i], calls[k].name)}
            IN good # {} =>
                 /\ calls[k].ret # 0
                 /\ \E i \in good :
                       /\ \A j \in good : i <= j
                       /\ calls[k].after[calls[k].ret].output_file =
                              cbuild__join_path("lib", CutLine(lines[i]).path)

\* The part of C31 on lines of fewer than three tokens: such a line adds no
\* record.
ShortLinesAddNoRecord ==
    \A k \in DOMAIN calls :
        ReadManifest(k) =>
            Len(calls[k].sub_after.targets) =
                Cardinality({i \in DOMAIN LinesOf(calls[k].output) :
                                CutLine(LinesOf(calls[k].output)[i]).path # NULL})

\* The call k ran the child and the manifest query failed: the child
\* exited non-zero or printed nothing.
QueryFailed(k) ==
    /\ calls[k].op = "cbuild_subproject_get_target"
    /\ calls[k].ran
    /\ (calls[k].rc # 0 \/ calls[k].output = <<>>)

\* C32: when the manifest query fails, cbuild_subproject_get_target returns
\* a null pointer for every name, registers no proxy and adds no manifest
\* record (the registry and the subproject are as before), and a
\* cbuild_target_link_library with a null dependency adds no dependency.
C32_FailedQueryReturnsAbsent ==
    \A k \in DOMAIN calls :
        /\ QueryFailed(k) =>
              /\ calls[k].ret = 0
              /\ calls[k].after = calls[k].before
              /\ calls[k].sub_after = calls[k].sub_before
        /\ (calls[k].op = "cbuild_target_link_library" /\ calls[k].dep = 0) =>
              calls[k].after = calls[k].before

\* The child printed a line for math and exited non-zero; math was asked
\* for, and the null result was linked into app, which has no dependency.
C32_Witness ==
    /\ Len(calls) = 2
    /\ QueryFailed(1)
    /\ calls[1].name = "math" /\ calls[1].output = ValidLine /\ calls[1].rc = 1
    /\ calls[2].op = "cbuild_target_link_library" /\ calls[2].dep = 0
    /\ g_targets[1].dependencies = <<>>
    /\ Len(g_targets) = 1
    /\ g_subprojects[1].targets = <<>>

----------------------------------------------------------------------------
(* The form of the command lines (SpecTools) *)

\* The formats of the MSVC-like forms and of the GCC-like forms.
MsvcFormats ==
    {"/c /nologo /Fo\"%s\" ", "%s /OUT:%s", " /LIBPATH:\"%s\"", " %s.lib", " /DLL"}
GccFormats ==
    {"-c -o \"%s\" ", "%s rcs %s", " -L\"%s\"", " -l%s", " -shared"}

\* The formats the lines of the cbuild_run c were built with.
FormatsOf(c) ==
    UNION {{c.compile[t][i][1] : i \in DOMAIN c.compile[t]} : t \in DOMAIN c.compile}
      \cup UNION {{c.link[t][i][1] : i \in DOMAIN c.link[t]} : t \in DOMAIN c.link}

\* A compiler name is MSVC-like: it contains "cl" but not "clang".
MsvcLike(name) == strstr(name, "cl") /\ ~strstr(name, "clang")

\* C33: the compile, archive and link lines have the MSVC-like forms
\* exactly when the selected compiler's name contains "cl" but not
\* "clang", and the GCC-like forms for every other name.
C33_FormsFollowCompilerName ==
    \A k \in DOMAIN calls :
        calls[k].op = "cbuild_run" =>
            IF MsvcLike(calls[k].tools.g_cc)
            THEN /\ MsvcFormats \subseteq FormatsOf(calls[k])
                 /\ GccFormats \cap FormatsOf(calls[k]) = {}
            ELSE /\ GccFormats \subseteq FormatsOf(calls[k])
                 /\ MsvcFormats \cap FormatsOf(calls[k]) = {}

\* What the code does: the forms follow the platform cbuild.h was compiled
\* for, whatever the compiler's name.
FormsFollowPlatform ==
    \A k \in DOMAIN calls :
        calls[k].op = "cbuild_run" =>
            IF calls[k].platform = "_WIN32"
            THEN /\ MsvcFormats \subseteq FormatsOf(calls[k])
                 /\ GccFormats \cap FormatsOf(calls[k]) = {}
            ELSE /\ (GccFormats \ {" -l%s"}) \subseteq FormatsOf(calls[k])
                 /\ MsvcFormats \cap FormatsOf(calls[k]) = {}

----------------------------------------------------------------------------
(* Cached command results (Spec) *)

\* Command c entered run r executed, with a non-zero cached result.
CachedFailure(r, c) == r.cmds0[c].executed /\ r.cmds0[c].result # 0

\* C34: when a pre-command of target T, or a command it transitively
\* depends on, enters a default build executed with a non-zero cached
\* result, the command visitor returns that failure: T's build step does
\* not run and cbuild_run returns non-zero.
C34_CachedFailureStopsBuild ==
    \A n \in DefaultBuilds :
        (AcyclicGraph /\ ~runs[n].crashed) =>
            \A t \in DOMAIN g_targets :
                (\E c \in WithCommandDeps(PreCommands(t)) : CachedFailure(runs[n], c)) =>
                    /\ \A i \in DOMAIN runs[n].log : runs[n].log[i] # <<"BUILD", t>>
                    /\ runs[n].rc # 0

\* The part of C34 that the code keeps: a cached failure of a command that
\* a pre-command not yet executed depends on reaches the caller through
\* cbuild_run_command, and T is not built.
CachedFailureOfDependencyStopsBuild ==
    \A n \in DefaultBuilds :
        (AcyclicGraph /\ ~runs[n].crashed) =>
            \A t \in DOMAIN g_targets :
                (/\ \A c \in PreCommands(t) : ~runs[n].cmds0[c].executed
                 /\ \E c \in WithCommandDeps(PreCommands(t)) : CachedFailure(runs[n], c)) =>
                    /\ \A i \in DOMAIN runs[n].log : runs[n].log[i] # <<"BUILD", t>>
                    /\ runs[n].rc # 0

----------------------------------------------------------------------------
(* Command chains (SpecChain) *)

\* In a log that started with the commands as in cmds0, every shell line
\* ran after each command it transitively depends on had executed with
\* result 0 (before the call, or earlier in the log).
AfterDependencies(log, cmds0) ==
    \A i \in DOMAIN log :
        log[i][1] = "COMMAND" =>
            \A d \in TransitiveCommandDeps(log[i][2]) :
                \/ cmds0[d].executed /\ cmds0[d].result = 0
                \/ \E j \in 1..(i - 1) : log[j] = <<"COMMAND", d, 0>>

\* The dependencies of the command of call k that the call executed ran in
\* the order of its dependency list, unless the earlier depends on the
\* later one (which then ran first, as its dependency).
InRegistrationOrder(k) ==
    LET deps == g_commands[calls[k].cmd].dependencies IN
    \A a, b \in DOMAIN deps :
        (a < b /\ deps[b] \notin TransitiveCommandDeps(deps[a])) =>
            \A i \in Executions(calls[k], deps[a]) :
                \A j \in Executions(calls[k], deps[b]) : i < j

\* A command that command c transitively depends on has a non-zero result
\* in cmds.
DependencyFailed(cmds, c) ==
    \E d \in TransitiveCommandDeps(c) : cmds[d].executed /\ cmds[d].result # 0

\* C35: in cbuild_run_command and in the command visitor, a command's shell
\* line is executed only after every command it transitively depends on
\* has executed with result 0, the dependencies in registration order;
\* when a dependency's result is non-zero the command's line is not
\* executed, the command stays not-executed, and the caller sees the
\* dependency's non-zero result (cbuild_run returns non-zero).
C35_CommandAfterDependencies ==
    /\ \A c \in DOMAIN g_commands :
          g_commands[c].executed =>
              \A d \in TransitiveCommandDeps(c) :
                  g_commands[d].executed /\ g_commands[d].result = 0
    /\ \A k \in DOMAIN calls :
          /\ AfterDependencies(calls[k].log, calls[k].cmds0)
          /\ InRegistrationOrder(k)
          /\ DependencyFailed(calls[k].cmds1, calls[k].cmd) =>
                /\ Executions(calls[k], calls[k].cmd) = {}
                /\ ~calls[k].cmds1[calls[k].cmd].executed
                /\ \E d \in TransitiveCommandDeps(calls[k].cmd) :
                      /\ calls[k].cmds1[d].executed
                      /\ calls[k].cmds1[d].result # 0
                      /\ calls[k].rc = calls[k].cmds1[d].result
    /\ \A n \in DOMAIN runs :
          /\ AfterDependencies(runs[n].log, runs[n].cmds0)
          /\ \A t \in DOMAIN g_targets : \A c \in PreCommands(t) \cup PostCommands(t) :
                (~runs[n].cmds0[c].executed /\ DependencyFailed(runs[n].cmds0, c)) =>
                    /\ Executions(runs[n], c) = {}
                    /\ runs[n].rc # 0

\* gen depends on lint and fmt, in that order: a direct call of gen ran
\* lint, then fmt, which failed, and returned fmt's result without running
\* gen; the build that followed reached gen, did not run it and failed.
C35_Witness ==
    /\ g_commands[1].dependencies = <<3, 2>>
    /\ Len(calls) >= 1
    /\ calls[1].cmd = 1
    /\ calls[1].log = << <<"COMMAND", 3, 0>>, <<"COMMAND", 2, 1>> >>
    /\ calls[1].rc = 1
    /\ ~g_commands[1].executed
    /\ Len(runs) = 1
    /\ runs[1].cmds0 = calls[1].cmds1
    /\ runs[1].rc # 0
    /\ Executions(runs[1], 1) = {}

\* The log of the call this step made: of the cbuild_run, or of the
\* cbuild_run_command.
StepLog ==
    IF runs' # runs THEN runs'[Len(runs')].log
    ELSE IF calls' # calls THEN calls'[Len(calls')].log
    ELSE <<>>

\* C38: the executed flag and the cached result of a command, once set,
\* are never reset: no later cbuild_run or cbuild_run_command of the
\* process executes the command again.
C38_ExecutedNeverReset ==
    [][\A c \in DOMAIN g_commands :
          g_commands[c].executed =>
              /\ g_commands'[c].executed
              /\ g_commands'[c].result = g_commands[c].result
              /\ \A i \in DOMAIN StepLog :
                    ~(StepLog[i][1] = "COMMAND" /\ StepLog[i][2] = c)]_vars

\* Two builds and then a direct call of gen: the first build ran gen and
\* fmt, the second build ran no command, and the call returned gen's
\* cached result without running it.
C38_Witness ==
    /\ Len(runs) = 2
    /\ Executions(runs[1], 1) # {} /\ Executions(runs[1], 2) # {}
    /\ runs[1].rc = 0
    /\ \A c \in DOMAIN g_commands : Executions(runs[2], c) = {}
    /\ runs[2].rc = 0
    /\ Len(calls) = 1
    /\ calls[1].cmd = 1
    /\ calls[1].cmds0 = runs[2].cmds0
    /\ calls[1].cmds0[1].executed
    /\ calls[1].log = <<>>
    /\ calls[1].rc = 0

----------------------------------------------------------------------------
(* Shared dependencies (SpecDiamond) *)

\* The invocations of build_target(t) in run r.
BuildsOf(r, t) == {i \in DOMAIN r.log : r.log[i] = <<"BUILD", t>>}

\* C36: within one cbuild_run, build_target is invoked at most once for
\* each target, also for a target that several targets depend on and that
\* the loop over the registry reaches as well.
C36_BuildTargetAtMostOnce ==
    \A n \in DOMAIN runs : \A t \in DOMAIN g_targets :
        Cardinality(BuildsOf(runs[n], t)) <= 1

\* The diamond: left and right depend on base, top on left and right; the
\* build succeeded and invoked build_target once for each of the four.
C36_Witness ==
    /\ g_targets[1].dependencies = <<>>
    /\ g_targets[2].dependencies = <<1>>
    /\ g_targets[3].dependencies = <<1>>
    /\ g_targets[4].dependencies = <<2, 3>>
    /\ Len(runs) = 1
    /\ runs[1].rc = 0
    /\ \A t \in DOMAIN g_targets : Cardinality(BuildsOf(runs[1], t)) = 1

----------------------------------------------------------------------------
(* The compile-commands index file and the verbs (SpecIndex) *)

\* Run r created the index file or modified it: the file is there after
\* the run, with another mtime than before.
IndexWritten(r) == r.fs1[IndexPath] # 0 /\ r.fs1[IndexPath] # r.fs0[IndexPath]

\* C37: <output_dir>/compile_commands.json is created or modified only by
\* a default build that succeeded with generation enabled; a failed build
\* and the clean, --manifest and subcommand verbs never create or modify
\* it.
C37_IndexWrittenOnlyBySuccessfulBuild ==
    \A n \in DOMAIN runs :
        IndexWritten(runs[n]) =>
            /\ DefaultBuild(runs[n])
            /\ Succeeded(runs[n])
            /\ g_generate_compile_commands

\* With generation enabled, the subcommand test built main and ran, and
\* no index file appeared; then the default build succeeded and wrote it.
C37_Witness ==
    /\ g_generate_compile_commands
    /\ Len(runs) = 2
    /\ runs[1].argv = <<"test">>
    /\ runs[1].rc = 0
    /\ \E i \in DOMAIN runs[1].log : runs[1].log[i] = <<"LINK", 2, 0>>
    /\ runs[1].fs0[IndexPath] = 0
    /\ ~IndexWritten(runs[1])
    /\ runs[2].argv = <<>>
    /\ IndexWritten(runs[2])

\* clean removes the index file with the output directory.
CleanRemovesIndex ==
    \A n \in DOMAIN runs :
        runs[n].argv = <<"clean">> => runs[n].fs1[IndexPath] = 0

----------------------------------------------------------------------------
(* The self-rebuild protocol: termination and the executable (SpecSelf) *)

\* Every compile of the images 1..k that ran succeeded.
CompilesSucceeded(k) ==
    \A j \in 1..k :
        Len(calls[j].steps) >= 3 => calls[j].steps[3] = <<"system", 0>>

\* C39: the compile of the rebuild succeeding, one invocation re-executes
\* itself at most once: in the image execv started
\* cbuild_self_rebuild_if_needed finds nothing to rebuild and returns,
\* whatever the mtimes of the declared sources (one later than the current
\* time, one equal to the executable's).
C39_ReExecAtMostOnce ==
    \A k \in DOMAIN calls :
        (k >= 2 /\ CompilesSucceeded(k)) =>
            /\ calls[k].steps = << <<"remove", OldPath>> >>
            /\ calls[k].outcome = "returned"

\* What the code keeps: when no declared source is stamped later than the
\* time of the rebuild, the image execv started returns; and a source
\* stamped like the executable causes no rebuild.
ReExecOnceUnlessFutureSource ==
    \A k \in DOMAIN calls :
        /\ (k >= 2 /\ CompilesSucceeded(k)
              /\ \A i \in DOMAIN SelfSources :
                    calls[k - 1].fs0[SelfSources[i]] <= calls[k - 1].clock0) =>
              calls[k].outcome = "returned"
        /\ (\A i \in DOMAIN SelfSources :
               calls[k].fs0[SelfSources[i]] <= calls[k].fs0[ExePath]) =>
              calls[k].outcome = "returned"

\* C40: after cbuild_self_rebuild_if_needed, the exit after a failed
\* compile included, a file exists at the path of the build executable.
C40_ExecutableAlwaysAtPath == fs[ExePath] # 0

\* What the code keeps: the executable is missing only after a failed
\* compile, and then the previous one is at cbuild.old.
ExecutableMissingOnlyAfterFailedCompile ==
    fs[ExePath] = 0 =>
        /\ pc = "exited"
        /\ calls # <<>>
        /\ calls[Len(calls)].steps[Len(calls[Len(calls)].steps)] = <<"system", 1>>
        /\ fs[OldPath] = calls[Len(calls)].fs0[ExePath]

====
